---- MODULE Spec2Model ----
(***************************************************************************)
(* Model of configure.py of musl-toolchains: the flag composition of       *)
(* Args.__init__, the tool discovery of Args.try_get_tools, the patch      *)
(* bundle handling of main and Patch, the build graph written by           *)
(* Args.ninja, and an executor running that graph along its edges and      *)
(* pools.                                                                  *)
(*                                                                         *)
(* A Python string is a sequence of symbols.  A symbol is a character or   *)
(* an opaque word that the program never looks inside (a whole configure   *)
(* switch such as "--disable-werror").  An Optional value is the empty set *)
(* (None) or a singleton set.                                              *)
(***************************************************************************)
EXTENDS Integers, Sequences, FiniteSets, TLC

VARIABLES
    pc,                 \* position in main(): "init", "patches", "tools", "checked", "written", "exit1", "crashed"
    target,             \* args.target
    host,               \* args.host (Optional)
    args_binutils_flags,\* args.binutils_flags (Optional string)
    args_gcc_flags,     \* args.gcc_flags (Optional string)
    gcc_with_isl,       \* args.gcc_with_isl
    no_patches,         \* args.no_patches
    version,            \* args.<name>_version, per component
    enable_cache,       \* args.enable_cache
    cc, cxx,            \* self.cc, self.cxx
    cc_build, cxx_build,\* self.cc_build, self.cxx_build
    make,               \* self._make
    path,               \* the commands shutil.which finds
    windows,            \* whether platform.system() is "Windows"
    checked,            \* the commands _exists was asked about, in order
    failed,             \* the result of try_get_tools (Optional: unset before it ran)
    patchfs,            \* the patch directories that exist, each with its os.listdir
    extracted,          \* whether patches/musl-cross-make-<commit> exists
    fetches,            \* number of downloads of the patch bundle
    binutils_flags,     \* self.binutils_flags
    gcc_flags,          \* self.gcc_flags
    arch,               \* the ninja variable "arch" (Optional: unset before ninja())
    ninja_vars,         \* the top-level variables written to build.ninja
    rules,              \* the rules written to build.ninja, each with its command
    builds,             \* the build statements written to build.ninja
    defaults,           \* the targets of the default statement
    goal,               \* the target the executor was asked for (Optional)
    plan,               \* the outputs the executor has to bring up to date
    running,            \* outputs whose command is executing
    done                \* outputs whose command completed

vars == <<pc, target, host, args_binutils_flags, args_gcc_flags, gcc_with_isl,
          no_patches, version, enable_cache, cc, cxx, cc_build, cxx_build, make, path,
          checked, failed, patchfs, extracted, fetches, binutils_flags, gcc_flags,
          arch, ninja_vars, rules, builds, defaults, windows, goal, plan, running, done>>

(***************************************************************************)
(* Bounds of the model.                                                    *)
(***************************************************************************)
MaxUserLen == 2         \* longest user extra-flag string, in symbols
MaxJobs == 2            \* commands the executor runs at once
MaxMissing == 3         \* commands missing from the search path

(***************************************************************************)
(* Strings.                                                                *)
(***************************************************************************)
None == {}
Some(v) == {v}
Val(o) == CHOOSE v \in o : TRUE
\* Python truthiness of an Optional[str]
Truthy(o) == o # None /\ Val(o) # <<>>

StartsWith(s, p) == Len(s) >= Len(p) /\ SubSeq(s, 1, Len(p)) = p
EndsWith(s, p) == Len(s) >= Len(p) /\ SubSeq(s, Len(s) - Len(p) + 1, Len(s)) = p
Contains(s, p) == \E i \in 1..(Len(s) - Len(p) + 1) : SubSeq(s, i, i + Len(p) - 1) = p

\* index of the first occurrence of symbol c in s, 0 when there is none
IndexOf(s, c) ==
    IF \E i \in 1..Len(s) : s[i] = c
    THEN CHOOSE i \in 1..Len(s) : s[i] = c /\ \A j \in 1..(i - 1) : s[j] # c
    ELSE 0

\* str.split(sep) for a one-symbol separator
RECURSIVE Split(_, _)
Split(s, sep) ==
    LET i == IndexOf(s, sep)
    IN  IF i = 0 THEN <<s>>
        ELSE <<SubSeq(s, 1, i - 1)>> \o Split(SubSeq(s, i + 1, Len(s)), sep)

\* " ".join(list)
RECURSIVE Join(_, _)
Join(l, sep) ==
    IF l = <<>> THEN <<>>
    ELSE IF Len(l) = 1 THEN l[1]
    ELSE l[1] \o <<sep>> \o Join(Tail(l), sep)

\* str.replace(old, new) for a one-symbol old
RECURSIVE Replace(_, _, _)
Replace(s, old, new) ==
    IF s = <<>> THEN <<>>
    ELSE (IF Head(s) = old THEN new ELSE <<Head(s)>>) \o Replace(Tail(s), old, new)

\* str.lstrip(c)
RECURSIVE LStrip(_, _)
LStrip(s, c) ==
    IF s # <<>> /\ Head(s) = c THEN LStrip(Tail(s), c) ELSE s

\* a configure switch the program treats as one word
Flag(w) == <<w>>

(***************************************************************************)
(* Args.__init__ : flag composition.                                       *)
(***************************************************************************)
BinutilsBaseFlags ==
    << Flag("--disable-separate-code"),
       Flag("--disable-werror"),
       Flag("--target=$target"),
       Flag("--prefix="),
       Flag("--libdir=/lib"),
       Flag("--disable-multilib"),
       Flag("--with-sysroot=/$target"),
       Flag("--enable-deterministic-archives") >>

GccBaseFlags ==
    << Flag("--enable-languages=c,c++"),
       Flag("--disable-bootstrap"),
       Flag("--disable-werror"),
       Flag("--target=$target"),
       Flag("--prefix="),
       Flag("--libdir=/lib"),
       Flag("--disable-multilib"),
       Flag("--with-sysroot=/$target"),
       Flag("--enable-tls"),
       Flag("--disable-libmudflap"),
       Flag("--disable-libsanitizer"),
       Flag("--disable-gnu-indirect-function"),
       Flag("--disable-libmpx"),
       Flag("--enable-initfini-array"),
       Flag("--enable-libstdcxx-time=rt"),
       Flag("--with-build-sysroot=$build_sysroot_dir") >>

\* if self.host: flags.append("--host=$host")
HostFlags(h) == IF Truthy(h) THEN << Flag("--host=$host") >> ELSE <<>>

\* if args.X_flags: flags.extend(args.X_flags.split(" "))
UserFlags(u) == IF Truthy(u) THEN Split(Val(u), " ") ELSE <<>>

FdpicFlags(t) ==
    IF Contains(t, <<"f","d","p","i","c">>) THEN << Flag("--enable-fdpic") >> ELSE <<>>

X32Flags(t) ==
    IF StartsWith(t, <<"x","8","6","_","6","4">>) /\ EndsWith(t, <<"x","3","2">>)
    THEN << Flag("--with-abi=x32") >> ELSE <<>>

Ppc64Flags(t) ==
    IF Contains(t, <<"p","o","w","e","r","p","c","6","4">>)
    THEN << Flag("--with-abi=elfv2") >> ELSE <<>>

\* the n32 test left out
MipsFlagsAlways64(t) ==
    IF Contains(t, <<"m","i","p","s","6","4">>) \/ Contains(t, <<"m","i","p","s","i","s","a","6","4">>)
    THEN << Flag("--with-abi=64") >>
    ELSE <<>>

MipsFlags(t) ==
    IF Contains(t, <<"m","i","p","s","6","4">>) \/ Contains(t, <<"m","i","p","s","i","s","a","6","4">>)
    THEN IF Contains(t, <<"n","3","2">>)
         THEN << Flag("--with-abi=n32") >>
         ELSE << Flag("--with-abi=64") >>
    ELSE <<>>

S390xFlags(t) ==
    IF Contains(t, <<"s","3","9","0","x">>) THEN << Flag("--with-long-double-128") >> ELSE <<>>

FloatFlags(t) ==
    IF EndsWith(t, <<"s","f">>) THEN << Flag("--with-float=soft") >>
    ELSE IF EndsWith(t, <<"h","f">>) THEN << Flag("--with-float=hard") >>
    ELSE <<>>

GccArchFlags(t) ==
    FdpicFlags(t) \o X32Flags(t) \o Ppc64Flags(t) \o MipsFlags(t) \o S390xFlags(t) \o FloatFlags(t)

\* the user flags ahead of the host flag
ComposeBinutilsFlagsUserFirst(h, u) == BinutilsBaseFlags \o UserFlags(u) \o HostFlags(h)

ComposeBinutilsFlags(h, u) == BinutilsBaseFlags \o HostFlags(h) \o UserFlags(u)

\* the host flag after the architecture flags
ComposeGccFlagsArchFirst(t, h, u) ==
    GccBaseFlags \o GccArchFlags(t) \o HostFlags(h) \o UserFlags(u)

ComposeGccFlags(t, h, u) == GccBaseFlags \o HostFlags(h) \o GccArchFlags(t) \o UserFlags(u)

ArgsInit ==
    /\ pc = "init"
    /\ binutils_flags' = ComposeBinutilsFlags(host, args_binutils_flags)
    /\ gcc_flags' = ComposeGccFlags(target, host, args_gcc_flags)
    /\ make' = <<"make">>
    /\ pc' = "patches"
    /\ UNCHANGED <<ninja_vars, rules, windows, target, host, args_binutils_flags, args_gcc_flags, gcc_with_isl,
                   no_patches, version, enable_cache, cc, cxx, cc_build, cxx_build, path,
                   checked, failed, patchfs, extracted, fetches, arch, builds, defaults,
                   goal, plan, running, done>>

(***************************************************************************)
(* class Patch and the patch bundle download of main.                      *)
(***************************************************************************)
Components == {"binutils", "gcc", "gmp", "isl", "linux", "mpc", "mpfr", "musl"}

\* Patch.path
PatchPath(name, ver) ==
    <<"patches/musl-cross-make-fe915821b652a7fa37b34a596f47d8e20bc72338/patches/", name, "-", ver>>

\* Patch.exists: patchfs maps every directory that exists to its os.listdir
PatchExists(fs, name, ver) == PatchPath(name, ver) \in DOMAIN fs

\* the files in the reverse of the listing order
PatchFilesReversed(fs, name, ver) ==
    LET p == PatchPath(name, ver)
    IN  [i \in 1..Len(fs[p]) |-> p \o <<"/", fs[p][Len(fs[p]) - i + 1]>>]

\* Patch.files
PatchFiles(fs, name, ver) ==
    LET p == PatchPath(name, ver)
    IN  [i \in 1..Len(fs[p]) |-> p \o <<"/", fs[p][i]>>]

\* the trees the bundle archive can unpack to: directories for the versions
\* of gcc and musl, each with a file listing in the order os.listdir gives
BundleListings == { <<>>, <<"fix-a.patch">>, <<"fix-a.patch", "fix-b.patch">>,
                    <<"fix-b.patch", "fix-a.patch">> }
BundleDirs == { PatchPath("gcc", "13.1.0"), PatchPath("musl", "1.2.4") }
BundleTrees == UNION { [D -> BundleListings] : D \in SUBSET BundleDirs }
NoTree == [d \in {} |-> <<>>]

\* main without the test for the directory: the bundle is downloaded on
\* every run with patches
FetchPatchesIgnoresDir ==
    /\ pc = "patches"
    /\ IF ~no_patches
       THEN /\ \E tree \in BundleTrees : patchfs' = tree
            /\ extracted' = TRUE
            /\ fetches' = fetches + 1
       ELSE UNCHANGED <<patchfs, extracted, fetches>>
    /\ pc' = "tools"
    /\ UNCHANGED <<ninja_vars, rules, windows, target, host, args_binutils_flags, args_gcc_flags, gcc_with_isl,
                   no_patches, version, enable_cache, cc, cxx, cc_build, cxx_build,
                   make, path, checked, failed, binutils_flags, gcc_flags, arch,
                   builds, defaults, goal, plan, running, done>>

\* main: the bundle is downloaded and unpacked unless patches are switched
\* off or the directory is already there
FetchPatches ==
    /\ pc = "patches"
    /\ IF ~no_patches /\ ~extracted
       THEN /\ \E tree \in BundleTrees : patchfs' = tree
            /\ extracted' = TRUE
            /\ fetches' = fetches + 1
       ELSE UNCHANGED <<patchfs, extracted, fetches>>
    /\ pc' = "tools"
    /\ UNCHANGED <<ninja_vars, rules, windows, target, host, args_binutils_flags, args_gcc_flags, gcc_with_isl,
                   no_patches, version, enable_cache, cc, cxx, cc_build, cxx_build,
                   make, path, checked, failed, binutils_flags, gcc_flags, arch,
                   builds, defaults, goal, plan, running, done>>

\* main: requests.get or ZipFile raises, the run ends with a traceback
FetchPatchesRaises ==
    /\ pc = "patches"
    /\ ~no_patches /\ ~extracted
    /\ fetches' = fetches + 1
    /\ pc' = "crashed"
    /\ UNCHANGED <<ninja_vars, rules, windows, target, host, args_binutils_flags, args_gcc_flags, gcc_with_isl,
                   no_patches, version, enable_cache, cc, cxx, cc_build, cxx_build,
                   make, path, checked, failed, patchfs, extracted, binutils_flags,
                   gcc_flags, arch, builds, defaults, goal, plan, running, done>>

(***************************************************************************)
(* Args.try_get_tools.                                                     *)
(***************************************************************************)
\* Args._exists
Exists(p, cmd) == cmd \in p

\* self.cc.replace("$host", self.host).lstrip("-")
HostCompiler(c, h) == LStrip(Replace(c, "$host", Val(h)), "-")

\* the wrapper chosen with sccache asked for first
WrapperSccacheFirst(p, cache) ==
    IF ~cache THEN None
    ELSE IF Exists(p, <<"sccache">>) THEN Some(<<"sccache">>)
    ELSE IF Exists(p, <<"ccache">>) THEN Some(<<"ccache">>)
    ELSE None

\* the wrapper chosen at lines 189-200
Wrapper(p, cache) ==
    IF ~cache THEN None
    ELSE IF Exists(p, <<"ccache">>) THEN Some(<<"ccache">>)
    ELSE IF Exists(p, <<"sccache">>) THEN Some(<<"sccache">>)
    ELSE None

\* f"{wrapper} {compiler}"
Wrap(w, c) == IF w # None THEN Val(w) \o <<" ">> \o c ELSE c

\* the make found at lines 209-216
FindMake(p) ==
    IF Exists(p, <<"make">>) THEN Some(<<"make">>)
    ELSE IF Exists(p, <<"gmake">>) THEN Some(<<"gmake">>)
    ELSE IF Exists(p, <<"mingw32-make">>) THEN Some(<<"mingw32-make">>)
    ELSE None

\* the commands _exists is called with, in call order
ToolChecks(p, h, c, cx, cb, cxb, cache) ==
    <<cb, cxb>>
    \o (IF Truthy(h) THEN <<HostCompiler(c, h), HostCompiler(cx, h)>> ELSE <<>>)
    \o (IF cache
        THEN <<<<"ccache">>>> \o (IF Exists(p, <<"ccache">>) THEN <<>> ELSE <<<<"sccache">>>>)
        ELSE <<>>)
    \o <<<<"make">>>>
    \o (IF Exists(p, <<"make">>) THEN <<>>
        ELSE <<<<"gmake">>>> \o (IF Exists(p, <<"gmake">>) THEN <<>> ELSE <<<<"mingw32-make">>>>))
    \o << <<"curl">>, <<"patch">>, <<"tar">> >>

\* a missing tar not counted as a failure
ToolsFailedIgnoresTar(p, h, c, cx, cb, cxb) ==
    \/ ~Exists(p, cb)
    \/ ~Exists(p, cxb)
    \/ Truthy(h) /\ (~Exists(p, HostCompiler(c, h)) \/ ~Exists(p, HostCompiler(cx, h)))
    \/ FindMake(p) = None
    \/ ~Exists(p, <<"curl">>)
    \/ ~Exists(p, <<"patch">>)

\* the value try_get_tools returns
ToolsFailed(p, h, c, cx, cb, cxb) ==
    \/ ~Exists(p, cb)
    \/ ~Exists(p, cxb)
    \/ Truthy(h) /\ (~Exists(p, HostCompiler(c, h)) \/ ~Exists(p, HostCompiler(cx, h)))
    \/ FindMake(p) = None
    \/ ~Exists(p, <<"curl">>)
    \/ ~Exists(p, <<"patch">>)
    \/ ~Exists(p, <<"tar">>)

TryGetTools ==
    /\ pc = "tools"
    /\ LET w == Wrapper(path, enable_cache)
           c1 == IF Truthy(host) THEN HostCompiler(cc, host) ELSE cc_build
           cx1 == IF Truthy(host) THEN HostCompiler(cxx, host) ELSE cxx_build
       IN  /\ cc' = Wrap(w, c1)
           /\ cxx' = Wrap(w, cx1)
           /\ cc_build' = Wrap(w, cc_build)
           /\ cxx_build' = Wrap(w, cxx_build)
    /\ make' = IF FindMake(path) # None THEN Val(FindMake(path)) ELSE make
    /\ checked' = ToolChecks(path, host, cc, cxx, cc_build, cxx_build, enable_cache)
    /\ failed' = Some(ToolsFailed(path, host, cc, cxx, cc_build, cxx_build))
    /\ pc' = "checked"
    /\ UNCHANGED <<ninja_vars, rules, windows, target, host, args_binutils_flags, args_gcc_flags, gcc_with_isl,
                   no_patches, version, enable_cache, path, patchfs, extracted,
                   fetches, binutils_flags, gcc_flags, arch, builds, defaults,
                   goal, plan, running, done>>

\* main: if failed: sys.exit(1)
Exit ==
    /\ pc = "checked"
    /\ Val(failed)
    /\ pc' = "exit1"
    /\ UNCHANGED <<ninja_vars, rules, windows, target, host, args_binutils_flags, args_gcc_flags, gcc_with_isl,
                   no_patches, version, enable_cache, cc, cxx, cc_build, cxx_build,
                   make, path, checked, failed, patchfs, extracted, fetches,
                   binutils_flags, gcc_flags, arch, builds, defaults, goal, plan,
                   running, done>>

(***************************************************************************)
(* Args.ninja : the statements written to build.ninja.                     *)
(***************************************************************************)
\* f"$build_targets_dir/{step}"
B(step) == "$build_targets_dir/" \o step
\* f"${name}_tarball"
Tarball(name) == "$" \o name \o "_tarball"

Console == Some("console")

\* writer.build(outputs, rule, inputs, implicit, pool, variables)
Build(out, rule, inputs, implicit, pool, variables) ==
    [out |-> out, rule |-> rule, inputs |-> inputs, implicit |-> implicit,
     pool |-> pool, variables |-> variables]

Range(q) == {q[i] : i \in 1..Len(q)}

DownloadTargets(isl) ==
    <<"binutils", "gcc", "gmp">> \o (IF isl THEN <<"isl">> ELSE <<>>)
    \o <<"linux", "mpc", "mpfr", "musl">>

Url(name) ==
    CASE name = "binutils" -> <<"$gnu_site/binutils/binutils-$binutils_version.tar.xz">>
      [] name = "gcc" -> <<"$gnu_site/gcc/gcc-$gcc_version/gcc-$gcc_version.tar.xz">>
      [] name = "gmp" -> <<"$gnu_site/gmp/gmp-$gmp_version.tar.xz">>
      [] name = "isl" -> <<"$isl_site/isl-$isl_version.tar.xz">>
      [] name = "linux" -> <<"$linux_site/linux-$linux_version.tar.xz">>
      [] name = "mpc" -> <<"$gnu_site/mpc/mpc-$mpc_version.tar.gz">>
      [] name = "mpfr" -> <<"$gnu_site/mpfr/mpfr-$mpfr_version.tar.xz">>
      [] name = "musl" -> <<"$musl_site/releases/musl-$musl_version.tar.gz">>

\* step 1, the download-tarball statements
DownloadBuilds(isl) ==
    { Build(Tarball(name), "download-tarball", <<>>, <<>>, Console,
            { <<"url", Url(name)>> }) : name \in Range(DownloadTargets(isl)) }

RECURSIVE PatchArgs(_)
PatchArgs(files) ==
    IF files = <<>> THEN <<>>
    ELSE <<" -i ../../">> \o Head(files) \o PatchArgs(Tail(files))

\* the fallback for a directory without files left out
PatchCommandNoEmptyFallback(nopatches, fs, name, ver) ==
    IF nopatches THEN <<"true">>
    ELSE IF ~PatchExists(fs, name, ver) THEN <<"true">>
    ELSE <<"patch -p 1">> \o PatchArgs(PatchFiles(fs, name, ver))

\* the patch_command of an extract statement
PatchCommand(nopatches, fs, name, ver) ==
    IF nopatches THEN <<"true">>
    ELSE IF ~PatchExists(fs, name, ver) THEN <<"true">>
    ELSE LET cmd == <<"patch -p 1">> \o PatchArgs(PatchFiles(fs, name, ver))
         IN  IF cmd = <<"patch -p 1">> THEN <<"true">> ELSE cmd

Compression(name) == IF name \in {"mpc", "musl"} THEN <<"x">> ELSE <<"J">>

\* the extract-tar statements with the patch directory as implicit dependency
ExtractBuildsPatchInputs(isl, nopatches, fs, ver) ==
    { Build(B("extract-" \o name), "extract-tar", <<Tarball(name)>>,
            IF ~nopatches /\ PatchExists(fs, name, ver[name])
            THEN <<"$patches_dir">> ELSE <<>>,
            None,
            { <<"compression", Compression(name)>>,
              <<"extracted_dir", <<"$" \o name \o "_dir">> >>,
              <<"patch_command", PatchCommand(nopatches, fs, name, ver[name])>> })
      : name \in Range(DownloadTargets(isl)) }

\* step 1, the extract-tar statements
ExtractBuilds(isl, nopatches, fs, ver) ==
    { Build(B("extract-" \o name), "extract-tar", <<Tarball(name)>>, <<>>, None,
            { <<"compression", Compression(name)>>,
              <<"extracted_dir", <<"$" \o name \o "_dir">> >>,
              <<"patch_command", PatchCommand(nopatches, fs, name, ver[name])>> })
      : name \in Range(DownloadTargets(isl)) }

\* step 2 with the installation of binutils outside the console pool
BinutilsBuildsInstallUnpooled ==
    { Build(B("configure-binutils"), "configure-binutils", <<>>,
            <<B("extract-binutils")>>, Console, {}),
      Build(B("build-binutils"), "build-binutils", <<>>,
            <<B("configure-binutils")>>, Console, {}),
      Build(B("install-binutils"), "install-binutils", <<>>,
            <<B("build-binutils")>>, None, {}) }

\* step 2
BinutilsBuilds ==
    { Build(B("configure-binutils"), "configure-binutils", <<>>,
            <<B("extract-binutils")>>, Console, {}),
      Build(B("build-binutils"), "build-binutils", <<>>,
            <<B("configure-binutils")>>, Console, {}),
      Build(B("install-binutils"), "install-binutils", <<>>,
            <<B("build-binutils")>>, Console, {}) }

\* the ISL directory moved whether or not ISL is enabled
MoveTargetsAlwaysIsl(isl) == <<"gmp", "isl", "mpc", "mpfr">>

MoveTargets(isl) ==
    <<"gmp">> \o (IF isl THEN <<"isl">> ELSE <<>>) \o <<"mpc", "mpfr">>

\* step 3, the move-directory statements
MoveBuilds(isl) ==
    { Build(B("move-" \o name), "move-directory", <<>>, <<B("extract-" \o name)>>, None,
            { <<"src_dir", <<"$" \o name \o "_dir">> >>,
              <<"dst_dir", <<"$gcc_dir/" \o name>> >> })
      : name \in Range(MoveTargets(isl)) }

\* build_targets_move
BuildTargetsMove(isl) == [i \in 1..Len(MoveTargets(isl)) |-> B("move-" \o MoveTargets(isl)[i])]

\* configure-gcc not waiting for binutils
ConfigureGccImplicitNoBinutils(isl) == <<B("extract-gcc")>> \o BuildTargetsMove(isl)

\* step 3, configure-gcc
ConfigureGccImplicit(isl) ==
    <<B("extract-gcc")>> \o BuildTargetsMove(isl) \o <<B("build-binutils")>>

ConfigureGccBuilds(isl) ==
    { Build(B("configure-gcc"), "configure-gcc", <<>>, ConfigureGccImplicit(isl), Console, {}) }

\* step 4
AllGccBuilds ==
    { Build(B("build-gcc-all-gcc"), "build-gcc-all-gcc", <<>>,
            <<B("configure-gcc")>>, Console, {}) }

\* steps 5 and 6
MuslHeadersBuilds ==
    { Build(B("configure-musl"), "configure-musl", <<>>,
            <<B("extract-musl"), B("build-gcc-all-gcc")>>, Console, {}),
      Build(B("install-musl-headers-dep"), "install-musl-headers-dep", <<>>,
            <<B("configure-musl")>>, Console, {}) }

\* step 7
LibgccStaticBuilds ==
    { Build(B("build-gcc-libgcc-static"), "build-gcc-libgcc-static", <<>>,
            <<B("install-musl-headers-dep")>>, Console, {}) }

\* the sysroot install of the C library chained after the final install
MuslBuildsChainedInstalls ==
    { Build(B("build-musl"), "build-musl", <<>>,
            <<B("build-gcc-libgcc-static")>>, Console, {}),
      Build(B("install-musl-dep"), "install-musl-dep", <<>>,
            <<B("install-musl")>>, Console, {}),
      Build(B("install-musl"), "install-musl", <<>>,
            <<B("build-musl")>>, Console, {}) }

\* step 8
MuslBuilds ==
    { Build(B("build-musl"), "build-musl", <<>>,
            <<B("build-gcc-libgcc-static")>>, Console, {}),
      Build(B("install-musl-dep"), "install-musl-dep", <<>>,
            <<B("build-musl")>>, Console, {}),
      Build(B("install-musl"), "install-musl", <<>>,
            <<B("build-musl")>>, Console, {}) }

\* the shared libgcc build not waiting for the cleanup
LibgccSharedBuildsNoCleanEdge ==
    { Build(B("clean-gcc-libgcc-static"), "clean-gcc-libgcc-static", <<>>,
            <<B("install-musl-dep")>>, Console, {}),
      Build(B("build-gcc-libgcc-shared"), "build-gcc-libgcc-shared", <<>>,
            <<B("install-musl-dep")>>, Console, {}) }

\* step 9
LibgccSharedBuilds ==
    { Build(B("clean-gcc-libgcc-static"), "clean-gcc-libgcc-static", <<>>,
            <<B("install-musl-dep")>>, Console, {}),
      Build(B("build-gcc-libgcc-shared"), "build-gcc-libgcc-shared", <<>>,
            <<B("clean-gcc-libgcc-static")>>, Console, {}) }

\* the final compiler build started right after the front-end build
GccBuildsAfterAllGcc ==
    { Build(B("build-gcc"), "build-gcc", <<>>,
            <<B("build-gcc-all-gcc")>>, Console, {}),
      Build(B("install-gcc"), "install-gcc", <<>>,
            <<B("build-gcc")>>, Console, {}) }

\* step 10
GccBuilds ==
    { Build(B("build-gcc"), "build-gcc", <<>>,
            <<B("build-gcc-libgcc-shared")>>, Console, {}),
      Build(B("install-gcc"), "install-gcc", <<>>,
            <<B("build-gcc")>>, Console, {}) }

\* the or1k test left out
KernelArchNoOpenrisc(t) ==
    LET a == Split(t, "-")[1]
    IN  IF StartsWith(a, <<"a","a","r","c","h","6","4">>) THEN <<"a","r","m","6","4">>
        ELSE IF StartsWith(a, <<"a","r","m">>) THEN <<"a","r","m">>
        ELSE IF StartsWith(a, <<"i">>) /\ EndsWith(a, <<"8","6">>) THEN <<"x","8","6">>
        ELSE IF StartsWith(a, <<"m","i","c","r","o","b","l","a","z","e">>)
             THEN <<"m","i","c","r","o","b","l","a","z","e">>
        ELSE IF StartsWith(a, <<"m","i","p","s">>) THEN <<"m","i","p","s">>
        ELSE IF StartsWith(a, <<"p","o","w","e","r","p","c">>) THEN <<"p","o","w","e","r","p","c">>
        ELSE IF StartsWith(a, <<"r","i","s","c","v">>) THEN <<"r","i","s","c","v">>
        ELSE IF StartsWith(a, <<"s","3","9","0">>) THEN <<"s","3","9","0">>
        ELSE IF StartsWith(a, <<"s","h">>) THEN <<"s","h">>
        ELSE IF StartsWith(a, <<"x","8","6","_","6","4">>) THEN <<"x","8","6","_","6","4">>
        ELSE a

\* step 11, the kernel architecture
KernelArch(t) ==
    LET a == Split(t, "-")[1]
    IN  IF StartsWith(a, <<"a","a","r","c","h","6","4">>) THEN <<"a","r","m","6","4">>
        ELSE IF StartsWith(a, <<"a","r","m">>) THEN <<"a","r","m">>
        ELSE IF StartsWith(a, <<"i">>) /\ EndsWith(a, <<"8","6">>) THEN <<"x","8","6">>
        ELSE IF StartsWith(a, <<"m","i","c","r","o","b","l","a","z","e">>)
             THEN <<"m","i","c","r","o","b","l","a","z","e">>
        ELSE IF StartsWith(a, <<"m","i","p","s">>) THEN <<"m","i","p","s">>
        ELSE IF StartsWith(a, <<"o","r","1","k">>) THEN <<"o","p","e","n","r","i","s","c">>
        ELSE IF StartsWith(a, <<"p","o","w","e","r","p","c">>) THEN <<"p","o","w","e","r","p","c">>
        ELSE IF StartsWith(a, <<"r","i","s","c","v">>) THEN <<"r","i","s","c","v">>
        ELSE IF StartsWith(a, <<"s","3","9","0">>) THEN <<"s","3","9","0">>
        ELSE IF StartsWith(a, <<"s","3","9","0">>) THEN <<"s","3","9","0">>
        ELSE IF StartsWith(a, <<"s","h">>) THEN <<"s","h">>
        ELSE IF StartsWith(a, <<"x","8","6","_","6","4">>) THEN <<"x","8","6","_","6","4">>
        ELSE a

\* the kernel tree cleaned only after the C library headers are installed
LinuxBuildsAfterMuslHeaders ==
    { Build(B("build-linux"), "build-linux", <<>>,
            <<B("extract-linux"), B("install-musl-headers-dep")>>, Console, {}),
      Build(B("install-linux"), "install-linux", <<>>,
            <<B("build-linux")>>, Console, {}) }

\* step 11, the kernel header statements
LinuxBuilds ==
    { Build(B("build-linux"), "build-linux", <<>>,
            <<B("extract-linux")>>, Console, {}),
      Build(B("install-linux"), "install-linux", <<>>,
            <<B("build-linux")>>, Console, {}) }

\* clean targets
CleanBuilds ==
    { Build("clean-build", "delete-directory", <<"$build_dir">>, <<>>, None, {}),
      Build("clean-downloads", "delete-directory", <<"$download_dir">>, <<>>, None, {}),
      Build("clean", "clean-all", <<>>, <<"clean-build", "clean-downloads">>, None, {}) }

\* the sysroot install of the C library in place of the final one
InstallImplicitSysroot ==
    <<B("install-binutils"), B("install-gcc"), B("install-musl-dep"), B("install-linux")>>

\* install targets
InstallImplicit ==
    <<B("install-binutils"), B("install-gcc"), B("install-musl"), B("install-linux")>>

InstallBuilds ==
    { Build("install", "install-all", <<>>, InstallImplicit, None, {}) }

\* the kernel header install as default target
DefaultTargetsInstallLinux == <<B("build-gcc"), B("install-linux")>>

\* default targets
DefaultTargets == <<B("build-gcc"), B("build-linux")>>

\* every build statement of build.ninja
NinjaBuilds(isl, nopatches, fs, ver) ==
    DownloadBuilds(isl) \cup ExtractBuilds(isl, nopatches, fs, ver) \cup BinutilsBuilds
    \cup MoveBuilds(isl) \cup ConfigureGccBuilds(isl) \cup AllGccBuilds
    \cup MuslHeadersBuilds \cup LibgccStaticBuilds \cup MuslBuilds
    \cup LibgccSharedBuilds \cup GccBuilds \cup LinuxBuilds \cup CleanBuilds
    \cup InstallBuilds

(***************************************************************************)
(* Args.ninja : the rules written to build.ninja.  A command is a string;  *)
(* its steps are joined by " && ".                                          *)
(***************************************************************************)
\* Args.is_cross
IsCross(h) == h = None

\* the steps joined so that a step runs whether or not the one before it
\* succeeded
AndSemicolon(steps) == Join(steps, " ; ")

\* " && ".join(steps)
And(steps) == Join(steps, " && ")

\* host_exe_suffix
HostExeSuffix(win) == IF win THEN <<".exe">> ELSE <<>>

\* the *_FOR_TARGET pins of configure-gcc left out
GccVarsNoPins(h) == <<>>

\* gcc_vars
GccVars(h) ==
    IF IsCross(h)
    THEN << Flag("AR_FOR_TARGET=\"$root_dir/$binutils_dir/binutils/ar\""),
            Flag("AS_FOR_TARGET=\"$root_dir/$binutils_dir/gas/as-new\""),
            Flag("LD_FOR_TARGET=\"$root_dir/$binutils_dir/ld/ld-new\""),
            Flag("NM_FOR_TARGET=\"$root_dir/$binutils_dir/binutils/nm-new\""),
            Flag("OBJCOPY_FOR_TARGET=\"$root_dir/$binutils_dir/binutils/objcopy\""),
            Flag("OBJDUMP_FOR_TARGET=\"$root_dir/$binutils_dir/binutils/objdump\""),
            Flag("RANLIB_FOR_TARGET=\"$root_dir/$binutils_dir/binutils/ranlib\""),
            Flag("READELF_FOR_TARGET=\"$root_dir/$binutils_dir/binutils/readelf\""),
            Flag("STRIP_FOR_TARGET=\"$root_dir/$binutils_dir/binutils/strip-new\"") >>
    ELSE <<>>

\* musl_configure_env_vars
MuslConfigureEnvVars(h, win) ==
    << Flag("LIBCC=\"$root_dir/$gcc_dir/$target/libgcc/libgcc.a\"") >>
    \o (IF IsCross(h)
        THEN << <<"CC=\"$root_dir/$gcc_dir/gcc/xgcc">> \o HostExeSuffix(win)
                    \o <<" -B $root_dir/$gcc_dir/gcc\"">> >>
        ELSE << Flag("CC=${target}-gcc"), Flag("CROSS_COMPILE=${target}-") >>)

\* musl_flags
MuslFlags == << Flag("--prefix="), Flag("--host=$target") >>

\* musl_vars
MuslVars(h) ==
    IF IsCross(h)
    THEN << Flag("AR=\"$root_dir/$binutils_dir/binutils/ar\""),
            Flag("RANLIB=\"$root_dir/$binutils_dir/binutils/ranlib\"") >>
    ELSE << Flag("AR=${target}-ar"), Flag("RANLIB=${target}-ranlib") >>

Touch == <<"touch ../../$out">>

\* the extract-tar command without the removal of the stale directory
ExtractTarCommandNoDelete ==
    And(<< <<"tar -C $build_dir -x -$compression -f $in">>,
           <<"cd ", "$extracted_dir">>,
           <<"$patch_command">>,
           Touch >>)

\* the command of rule extract-tar
ExtractTarCommand ==
    And(<< <<"rm -rf ", "$extracted_dir">>,
           <<"tar -C $build_dir -x -$compression -f $in">>,
           <<"cd ", "$extracted_dir">>,
           <<"$patch_command">>,
           Touch >>)

\* the rules of steps 1 to 3
RulesToGcc(bflags, gflags, h) ==
    ("download-tarball" :> <<"$download_command $out $url">>)
    @@ ("extract-tar" :> ExtractTarCommand)
    @@ ("configure-binutils" :>
            And(<< <<"rm -rf ", "$binutils_dir">>,
                   <<"mkdir ", "$binutils_dir">>,
                   <<"cd ", "$binutils_dir">>,
                   <<"$env_vars ../binutils-$binutils_version/configure", " ">>
                       \o Join(bflags, " "),
                   Touch >>))
    @@ ("build-binutils" :>
            And(<< <<"cd ", "$binutils_dir">>, <<"$env_vars $make_command all">>, Touch >>))
    @@ ("install-binutils" :>
            And(<< <<"cd ", "$binutils_dir">>,
                   <<"$env_vars $make_command install DESTDIR=$install_dir">>,
                   Touch >>))
    @@ ("move-directory" :>
            And(<< <<"rm -rf ", "$dst_dir">>, <<"mv ", "$src_dir", " ", "$dst_dir">>, <<"touch $out">> >>))
    @@ ("configure-gcc" :>
            And(<< <<"rm -rf ", "$build_sysroot_dir">>,
                   <<"mkdir -p ", "$build_sysroot_dir", "/usr/include">>,
                   <<"rm -rf ", "$gcc_dir">>,
                   <<"mkdir ", "$gcc_dir">>,
                   <<"cd ", "$gcc_dir">>,
                   <<"$env_vars ../gcc-$gcc_version/configure", " ">>
                       \o Join(gflags, " ") \o <<" ">> \o Join(GccVars(h), " "),
                   Touch >>))
    @@ ("build-gcc-all-gcc" :>
            And(<< <<"cd ", "$gcc_dir">>, <<"$env_vars $make_command all-gcc">>, Touch >>))

\* the rules of steps 5 to 8
RulesMusl(h, win) ==
    ("configure-musl" :>
            And(<< <<"rm -rf ", "$musl_dir">>,
                   <<"mkdir ", "$musl_dir">>,
                   <<"cd ", "$musl_dir">>,
                   <<"$env_vars", " ">> \o Join(MuslConfigureEnvVars(h, win), " ")
                       \o <<" ", "../musl-$musl_version/configure", " ">>
                       \o Join(MuslFlags, " "),
                   Touch >>))
    @@ ("install-musl-headers-dep" :>
            And(<< <<"cd ", "$musl_dir">>,
                   <<"$env_vars $make_command install-headers prefix=/usr DESTDIR=$build_sysroot_dir">>,
                   Touch >>))
    @@ ("build-gcc-libgcc-static" :>
            And(<< <<"cd ", "$gcc_dir">>,
                   <<"$env_vars $make_command enable_shared=no all-target-libgcc">>,
                   Touch >>))
    @@ ("build-musl" :>
            And(<< <<"cd ", "$musl_dir">>,
                   <<"$env_vars $make_command", " ">> \o Join(MuslVars(h), " "),
                   Touch >>))
    @@ ("install-musl-dep" :>
            And(<< <<"cd ", "$musl_dir">>,
                   <<"$env_vars $make_command install prefix=/usr DESTDIR=$build_sysroot_dir">>,
                   Touch >>))
    @@ ("install-musl" :>
            And(<< <<"cd ", "$musl_dir">>,
                   <<"$env_vars $make_command install DESTDIR=$install_dir/$target">>,
                   Touch >>))

\* the rules of steps 9 to 11 and of the clean and install targets
RulesRest ==
    ("clean-gcc-libgcc-static" :>
            And(<< <<"cd ", "$gcc_dir">>,
                   <<"$env_vars $make_command -C $target/libgcc distclean">>,
                   Touch >>))
    @@ ("build-gcc-libgcc-shared" :>
            And(<< <<"cd ", "$gcc_dir">>,
                   <<"$env_vars $make_command enable_shared=yes all-target-libgcc">>,
                   Touch >>))
    @@ ("build-gcc" :>
            And(<< <<"cd ", "$gcc_dir">>, <<"$env_vars $make_command">>, Touch >>))
    @@ ("install-gcc" :>
            And(<< <<"cd ", "$gcc_dir">>,
                   <<"$env_vars $make_command install DESTDIR=$install_dir">>,
                   Touch >>))
    @@ ("build-linux" :>
            And(<< <<"cd ", "$linux_dir">>,
                   <<"$env_vars $make_command mrproper ARCH=$arch">>,
                   Touch >>))
    @@ ("install-linux" :>
            And(<< <<"rm -rf ", "$build_dir/linux-build">>,
                   <<"mkdir ", "$build_dir/linux-build">>,
                   <<"cd ", "$linux_dir">>,
                   <<"$env_vars $make_command headers_install O=$root_dir/$build_dir/linux-build ARCH=$arch INSTALL_HDR_PATH=$install_dir/$target">>,
                   Touch >>))
    @@ ("delete-directory" :> <<"rm -rf ", "$in">>)
    @@ ("clean-all" :> <<"true">>)
    @@ ("install-all" :> <<"true">>)

\* the variable env_vars, one element for every assignment
EnvVars(h) ==
    << "CC=\"$cc\"", "CXX=\"$cxx\"", "CFLAGS=\"$cc_flags\"",
       "CXXFLAGS=\"$cxx_flags\"", "LDFLAGS=\"$ld_flags\"" >>
    \o (IF ~IsCross(h)
        THEN << "CC_FOR_BUILD=\"$cc_build\"", "CXX_FOR_BUILD=\"$cxx_build\"" >>
        ELSE <<>>)

\* the compiler variables and env_vars written at the top of build.ninja
NinjaVariables(c, cx, cb, cxb, h) ==
    ("cc" :> c) @@ ("cxx" :> cx)
    @@ (IF ~IsCross(h) THEN ("cc_build" :> cb) @@ ("cxx_build" :> cxb) ELSE <<>>)
    @@ ("env_vars" :> EnvVars(h))

\* every rule of build.ninja
NinjaRules(bflags, gflags, h, win) ==
    RulesToGcc(bflags, gflags, h) @@ RulesMusl(h, win) @@ RulesRest

\* main: args.dependencies_summary(); args.ninja()
Ninja ==
    /\ pc = "checked"
    /\ ~Val(failed)
    /\ arch' = Some(KernelArch(target))
    /\ builds' = NinjaBuilds(gcc_with_isl, no_patches, patchfs, version)
    /\ ninja_vars' = NinjaVariables(cc, cxx, cc_build, cxx_build, host)
    /\ rules' = NinjaRules(binutils_flags, gcc_flags, host, windows)
    /\ defaults' = DefaultTargets
    /\ pc' = "written"
    /\ UNCHANGED <<windows, target, host, args_binutils_flags, args_gcc_flags, gcc_with_isl,
                   no_patches, version, enable_cache, cc, cxx, cc_build, cxx_build,
                   make, path, checked, failed, patchfs, extracted, fetches,
                   binutils_flags, gcc_flags, goal, plan, running, done>>

(***************************************************************************)
(* The executor of build.ninja: it brings a goal up to date, starting a    *)
(* statement's command only when every input and implicit dependency that  *)
(* some statement produces is complete, running at most MaxJobs commands   *)
(* at once and at most one command of the console pool.                    *)
(***************************************************************************)
Outputs(bs) == {b.out : b \in bs}
Deps(b) == Range(b.inputs) \cup Range(b.implicit)
Producer(bs, n) == CHOOSE b \in bs : b.out = n

\* the targets a goal names
Wanted(g, dflt) == IF g = "default" THEN Range(dflt) ELSE {g}

\* everything S depends on, S included
RECURSIVE Closure(_, _)
Closure(bs, S) ==
    LET next == S \cup UNION {Deps(b) : b \in {x \in bs : x.out \in S}}
    IN  IF next = S THEN S ELSE Closure(bs, next)

\* the goals the executor is started for; install needs everything the
\* default goal needs, so a run for the default goal is a run for install in
\* which no install statement is started
Goals == {"install", "clean"}

\* the executor is started for a goal
Invoke(g) ==
    /\ pc = "written"
    /\ goal = None
    /\ goal' = Some(g)
    /\ plan' = Closure(builds, Wanted(g, defaults)) \cap Outputs(builds)
    /\ UNCHANGED <<ninja_vars, rules, windows, pc, target, host, args_binutils_flags, args_gcc_flags, gcc_with_isl,
                   no_patches, version, enable_cache, cc, cxx, cc_build, cxx_build,
                   make, path, checked, failed, patchfs, extracted, fetches,
                   binutils_flags, gcc_flags, arch, builds, defaults, running, done>>

Start(b) ==
    /\ pc = "written"
    /\ goal # None
    /\ b.out \in plan
    /\ b.out \notin running \cup done
    /\ \A d \in Deps(b) : d \in Outputs(builds) => d \in done
    /\ Cardinality(running) < MaxJobs
    /\ b.pool = Console => \A r \in running : Producer(builds, r).pool # Console
    /\ running' = running \cup {b.out}
    /\ UNCHANGED <<ninja_vars, rules, windows, pc, target, host, args_binutils_flags, args_gcc_flags, gcc_with_isl,
                   no_patches, version, enable_cache, cc, cxx, cc_build, cxx_build,
                   make, path, checked, failed, patchfs, extracted, fetches,
                   binutils_flags, gcc_flags, arch, builds, defaults, goal, plan, done>>

Finish(b) ==
    /\ pc = "written"
    /\ b.out \in running
    /\ running' = running \ {b.out}
    /\ done' = done \cup {b.out}
    /\ UNCHANGED <<ninja_vars, rules, windows, pc, target, host, args_binutils_flags, args_gcc_flags, gcc_with_isl,
                   no_patches, version, enable_cache, cc, cxx, cc_build, cxx_build,
                   make, path, checked, failed, patchfs, extracted, fetches,
                   binutils_flags, gcc_flags, arch, builds, defaults, goal, plan>>

(***************************************************************************)
(* Inputs.                                                                 *)
(***************************************************************************)
T_aarch64 == <<"a","a","r","c","h","6","4","-","l","i","n","u","x","-","m","u","s","l">>
T_arm_hf == <<"a","r","m","-","l","i","n","u","x","-","m","u","s","l","e","a","b","i","h","f">>
T_armv7_sf == <<"a","r","m","v","7","-","l","i","n","u","x","-","m","u","s","l","e","a","b","i","s","f">>
T_i686 == <<"i","6","8","6","-","l","i","n","u","x","-","m","u","s","l">>
T_microblaze == <<"m","i","c","r","o","b","l","a","z","e","-","l","i","n","u","x","-","m","u","s","l">>
T_mips_sf == <<"m","i","p","s","-","l","i","n","u","x","-","m","u","s","l","s","f">>
T_mips64_n32sf == <<"m","i","p","s","6","4","-","l","i","n","u","x","-","m","u","s","l","n","3","2","s","f">>
T_mipsisa64r6 == <<"m","i","p","s","i","s","a","6","4","r","6","-","l","i","n","u","x","-","m","u","s","l">>
T_or1k == <<"o","r","1","k","-","l","i","n","u","x","-","m","u","s","l">>
T_powerpc64 == <<"p","o","w","e","r","p","c","6","4","-","l","i","n","u","x","-","m","u","s","l">>
T_riscv64 == <<"r","i","s","c","v","6","4","-","l","i","n","u","x","-","m","u","s","l">>
T_s390x == <<"s","3","9","0","x","-","l","i","n","u","x","-","m","u","s","l">>
T_sh2eb_fdpic == <<"s","h","2","e","b","-","l","i","n","u","x","-","m","u","s","l","f","d","p","i","c">>
T_x86_64 == <<"x","8","6","_","6","4","-","l","i","n","u","x","-","m","u","s","l">>
T_x86_64_x32 == <<"x","8","6","_","6","4","-","l","i","n","u","x","-","m","u","s","l","x","3","2">>
T_loongarch64 == <<"l","o","o","n","g","a","r","c","h","6","4","-","l","i","n","u","x","-","m","u","s","l">>
T_m68k == <<"m","6","8","k","-","l","i","n","u","x","-","m","u","s","l">>
\* two strings that meet several of the conditions of lines 104-125 at once
T_many_x32 == <<"x","8","6","_","6","4","-","f","d","p","i","c","-","p","o","w","e","r","p","c","6","4",
                "-","m","i","p","s","6","4","-","s","3","9","0","x","-","x","3","2">>
T_many_hf == <<"s","3","9","0","x","-","p","o","w","e","r","p","c","6","4","-","m","i","p","s","i","s","a","6","4",
               "-","n","3","2","-","f","d","p","i","c","-","h","f">>

Targets == { T_aarch64, T_arm_hf, T_armv7_sf, T_i686, T_microblaze, T_mips_sf,
             T_mips64_n32sf, T_mipsisa64r6, T_or1k, T_powerpc64, T_riscv64, T_s390x,
             T_sh2eb_fdpic, T_x86_64, T_x86_64_x32, T_loongarch64, T_m68k,
             T_many_x32, T_many_hf }

H_mingw == <<"x","8","6","_","6","4","-","w","6","4","-","m","i","n","g","w","3","2">>
Hosts == { None, Some(<<>>), Some(H_mingw) }

\* the symbols of a user extra-flag string: a switch and the separator
UserSymbols == {"--with-float=soft", " "}
UserStrings == UNION { [1..n -> UserSymbols] : n \in 0..MaxUserLen }
UserOpts == {None} \cup {Some(u) : u \in UserStrings}

\* the argparse defaults of lines 941-958 and 1000-1038
DefaultCc == <<"$host", "-", "gcc">>
DefaultCxx == <<"$host", "-", "g++">>
DefaultCcBuild == <<"gcc">>
DefaultCxxBuild == <<"g++">>
DefaultVersions ==
    [n \in Components |->
        CASE n = "binutils" -> "2.40"
          [] n = "gcc" -> "13.1.0"
          [] n = "gmp" -> "6.2.1"
          [] n = "isl" -> "0.24"
          [] n = "linux" -> "6.3.5"
          [] n = "mpc" -> "1.3.1"
          [] n = "mpfr" -> "4.2.0"
          [] n = "musl" -> "1.2.4"]
VersionChoices == { DefaultVersions, [DefaultVersions EXCEPT !["musl"] = "1.2.3"] }

\* every command the run can ask for
AllTools ==
    { <<"gcc">>, <<"g++">>, <<"clang">>, <<"clang++">>,
      H_mingw \o <<"-", "gcc">>, H_mingw \o <<"-", "g++">>,
      <<"ccache">>, <<"sccache">>, <<"make">>, <<"gmake">>, <<"mingw32-make">>,
      <<"curl">>, <<"patch">>, <<"tar">> }

\* the state main() starts in
InitWith(t, h, ub, ug, isl, np, ver, cache, c, cx, p, fs, ex, win) ==
    /\ pc = "init"
    /\ target = t
    /\ host = h
    /\ args_binutils_flags = ub
    /\ args_gcc_flags = ug
    /\ gcc_with_isl = isl
    /\ no_patches = np
    /\ version = ver
    /\ enable_cache = cache
    /\ cc = c
    /\ cxx = cx
    /\ cc_build = DefaultCcBuild
    /\ cxx_build = DefaultCxxBuild
    /\ make = <<>>
    /\ path = p
    /\ windows = win
    /\ checked = <<>>
    /\ failed = None
    /\ patchfs = fs
    /\ extracted = ex
    /\ fetches = 0
    /\ binutils_flags = <<>>
    /\ gcc_flags = <<>>
    /\ arch = None
    /\ ninja_vars = <<>>
    /\ rules = <<>>
    /\ builds = {}
    /\ defaults = <<>>
    /\ goal = None
    /\ plan = {}
    /\ running = {}
    /\ done = {}

\* the search paths: at most MaxMissing commands are not installed
Paths == { AllTools \ M : M \in { X \in SUBSET AllTools : Cardinality(X) <= MaxMissing } }

\* runs that differ in the tools installed, the host and the compilers named
InitTools ==
    \E h \in Hosts, cache \in BOOLEAN, p \in Paths,
       c \in { <<DefaultCc, DefaultCxx>>, << <<"clang">>, <<"clang++">> >> } :
        InitWith(T_arm_hf, h, None, None, FALSE, TRUE, DefaultVersions, cache,
                 c[1], c[2], p, NoTree, FALSE, FALSE)

\* runs that differ in the patch switches and the patch directories on disk
InitPatches ==
    \E isl \in BOOLEAN, np \in BOOLEAN, ver \in VersionChoices, ex \in BOOLEAN :
        \E fs \in (IF ex THEN BundleTrees ELSE {NoTree}) :
            InitWith(T_x86_64, None, None, None, isl, np, ver, FALSE,
                     DefaultCc, DefaultCxx, AllTools, fs, ex, FALSE)

\* runs that differ in the target and the host
InitTargets ==
    \E t \in Targets, h \in Hosts, isl \in BOOLEAN, win \in BOOLEAN :
        InitWith(t, h, None, None, isl, TRUE, DefaultVersions, FALSE,
                 DefaultCc, DefaultCxx, AllTools, NoTree, FALSE, win)

\* runs that differ in the target, the host and the two user flag strings
InitFlags ==
    \E t \in Targets, h \in Hosts, ub \in UserOpts, ug \in UserOpts :
        InitWith(t, h, ub, ug, FALSE, TRUE, DefaultVersions, FALSE,
                 DefaultCc, DefaultCxx, AllTools, NoTree, FALSE, FALSE)

Init == InitTools \/ InitPatches \/ InitTargets \/ InitFlags

Next ==
    \/ ArgsInit
    \/ FetchPatches
    \/ FetchPatchesRaises
    \/ TryGetTools
    \/ Exit
    \/ Ninja

Spec == Init /\ [][Next]_vars

\* the executor on the build.ninja of a run with the default arguments
\* (no host, no ISL, no patches), with empty build and download directories
InitExec ==
    /\ pc = "written"
    /\ target = T_arm_hf
    /\ host = None
    /\ args_binutils_flags = None
    /\ args_gcc_flags = None
    /\ gcc_with_isl = FALSE
    /\ no_patches = TRUE
    /\ version = DefaultVersions
    /\ enable_cache = FALSE
    /\ cc = DefaultCcBuild
    /\ cxx = DefaultCxxBuild
    /\ cc_build = DefaultCcBuild
    /\ cxx_build = DefaultCxxBuild
    /\ make = <<"make">>
    /\ path = AllTools
    /\ windows = FALSE
    /\ checked = ToolChecks(AllTools, None, DefaultCc, DefaultCxx,
                            DefaultCcBuild, DefaultCxxBuild, FALSE)
    /\ failed = Some(FALSE)
    /\ patchfs = NoTree
    /\ extracted = FALSE
    /\ fetches = 0
    /\ binutils_flags = ComposeBinutilsFlags(None, None)
    /\ gcc_flags = ComposeGccFlags(T_arm_hf, None, None)
    /\ arch = Some(KernelArch(T_arm_hf))
    /\ ninja_vars = NinjaVariables(DefaultCcBuild, DefaultCxxBuild, DefaultCcBuild,
                                  DefaultCxxBuild, None)
    /\ rules = NinjaRules(ComposeBinutilsFlags(None, None),
                          ComposeGccFlags(T_arm_hf, None, None), None, FALSE)
    /\ builds = NinjaBuilds(FALSE, TRUE, NoTree, DefaultVersions)
    /\ defaults = DefaultTargets
    /\ goal = None
    /\ plan = {}
    /\ running = {}
    /\ done = {}

NextExec ==
    \/ \E g \in Goals : Invoke(g)
    \/ \E b \in builds : Start(b)
    \/ \E b \in builds : Finish(b)

SpecExec == InitExec /\ [][NextExec]_vars

(***************************************************************************)
(* Properties of the written graph.                                        *)
(***************************************************************************)
\* the statements left after repeatedly removing those none of whose
\* dependencies is produced by a remaining statement
RECURSIVE Peel(_)
Peel(bs) ==
    LET ready == {b \in bs : Deps(b) \cap Outputs(bs) = {}}
    IN  IF ready = {} THEN bs ELSE Peel(bs \ ready)

Acyclic(bs) == Peel(bs) = {}

\* the outputs that depend on an output of S, S included
RECURSIVE Dependents(_, _)
Dependents(bs, S) ==
    LET next == S \cup {b.out : b \in {x \in bs : Deps(x) \cap S # {}}}
    IN  IF next = S THEN S ELSE Dependents(bs, next)

Written == pc = "written"

\* C1: the written graph is acyclic, and every input or implicit dependency
\* of every statement, and every default target, is the output of a statement.
C1_GraphClosedAndAcyclic ==
    Written =>
        /\ Acyclic(builds)
        /\ \A b \in builds : Deps(b) \subseteq Outputs(builds)
        /\ Range(defaults) \subseteq Outputs(builds)

\* the part of C1 the program keeps: acyclic, and closed but for the two
\* directories the delete-directory statements take as inputs
GraphClosedButDirectories ==
    Written =>
        /\ Acyclic(builds)
        /\ \A b \in builds : Deps(b) \subseteq Outputs(builds) \cup {"$build_dir", "$download_dir"}
        /\ Range(defaults) \subseteq Outputs(builds)

BootstrapOrder ==
    << B("extract-binutils"), B("configure-binutils"), B("build-binutils"),
       B("configure-gcc"), B("build-gcc-all-gcc"), B("configure-musl"),
       B("install-musl-headers-dep"), B("build-gcc-libgcc-static"), B("build-musl"),
       B("install-musl-dep"), B("clean-gcc-libgcc-static"), B("build-gcc-libgcc-shared"),
       B("build-gcc"), B("install-gcc") >>

\* C2: a bootstrap step is started only after the step before it in the
\* bootstrap order completed, and install-binutils is started only after
\* build-binutils completed.
C2_BootstrapOrder ==
    /\ \A i \in 1..(Len(BootstrapOrder) - 1) :
          BootstrapOrder[i + 1] \in running \cup done => BootstrapOrder[i] \in done
    /\ B("install-binutils") \in running \cup done => B("build-binutils") \in done

C2_Witness ==
    /\ B("install-gcc") \in done
    /\ B("install-binutils") \in done

\* C3: configure-gcc depends on exactly extract-gcc, the move statements
\* (move-isl exactly when ISL is enabled) and build-binutils; every move
\* statement depends on exactly the extract statement of its component.
C3_ConfigureGccPredecessors ==
    Written =>
        /\ Deps(Producer(builds, B("configure-gcc"))) =
              {B("extract-gcc"), B("move-gmp"), B("move-mpc"), B("move-mpfr"), B("build-binutils")}
              \cup (IF gcc_with_isl THEN {B("move-isl")} ELSE {})
        /\ {B("move-gmp"), B("move-mpc"), B("move-mpfr")} \subseteq Outputs(builds)
        /\ B("move-isl") \in Outputs(builds) <=> gcc_with_isl
        /\ \A n \in {"gmp", "isl", "mpc", "mpfr"} :
              B("move-" \o n) \in Outputs(builds) =>
                  Deps(Producer(builds, B("move-" \o n))) = {B("extract-" \o n)}

C3_Witness ==
    /\ Written
    /\ gcc_with_isl
    /\ B("move-isl") \in Deps(Producer(builds, B("configure-gcc")))

LinuxNodes == {Tarball("linux"), B("extract-linux"), B("build-linux"), B("install-linux")}
Aggregates == {"clean-build", "clean-downloads", "clean", "install"}
\* the binutils, compiler, math-library and C-library statements
ToolchainNodes(bs) == Outputs(bs) \ (LinuxNodes \cup Aggregates)

\* C4: the kernel-header statements depend on nothing but their own chain
\* download -> extract-linux -> build-linux -> install-linux, and no
\* toolchain statement depends on any of them.
C4_KernelHeadersIndependent ==
    Written =>
        /\ LinuxNodes \subseteq Outputs(builds)
        /\ Closure(builds, LinuxNodes) = LinuxNodes
        /\ Dependents(builds, LinuxNodes) \cap ToolchainNodes(builds) = {}
        /\ Deps(Producer(builds, Tarball("linux"))) = {}
        /\ Deps(Producer(builds, B("extract-linux"))) = {Tarball("linux")}
        /\ Deps(Producer(builds, B("build-linux"))) = {B("extract-linux")}
        /\ Deps(Producer(builds, B("install-linux"))) = {B("build-linux")}

C4_Witness ==
    /\ Written
    /\ B("install-linux") \in Outputs(builds)
    /\ B("build-gcc") \in ToolchainNodes(builds)

\* C5 as claimed: the default targets are the final compiler build and the
\* kernel header install.
C5_DefaultIsBuildGccAndInstallLinux ==
    Written => Range(defaults) = {B("build-gcc"), B("install-linux")}

\* C5 as amended: the default targets are the final compiler build and
\* build-linux, the statement that cleans the kernel tree.
C5_DefaultIsBuildGccAndBuildLinux ==
    Written => Range(defaults) = {B("build-gcc"), B("build-linux")}

C5_Witness ==
    /\ Written
    /\ B("build-linux") \in Range(defaults)
    /\ B("install-linux") \in Outputs(builds) \ Range(defaults)

\* C6: the install aggregate depends on exactly install-binutils,
\* install-gcc, install-musl (not install-musl-dep) and install-linux.
C6_InstallSubset ==
    Written =>
        Deps(Producer(builds, "install")) =
            {B("install-binutils"), B("install-gcc"), B("install-musl"), B("install-linux")}

C6_Witness ==
    /\ Written
    /\ "install" \in Outputs(builds)
    /\ B("install-musl-dep") \in Outputs(builds) \ Deps(Producer(builds, "install"))

(***************************************************************************)
(* Properties of the kernel architecture.                                  *)
(***************************************************************************)
\* the documented table, in the documented order: the architecture starts
\* with pre and ends with suf
ArchTable ==
    << [pre |-> <<"a","a","r","c","h","6","4">>, suf |-> <<>>, val |-> <<"a","r","m","6","4">>],
       [pre |-> <<"a","r","m">>, suf |-> <<>>, val |-> <<"a","r","m">>],
       [pre |-> <<"i">>, suf |-> <<"8","6">>, val |-> <<"x","8","6">>],
       [pre |-> <<"m","i","c","r","o","b","l","a","z","e">>, suf |-> <<>>,
        val |-> <<"m","i","c","r","o","b","l","a","z","e">>],
       [pre |-> <<"m","i","p","s">>, suf |-> <<>>, val |-> <<"m","i","p","s">>],
       [pre |-> <<"o","r","1","k">>, suf |-> <<>>, val |-> <<"o","p","e","n","r","i","s","c">>],
       [pre |-> <<"p","o","w","e","r","p","c">>, suf |-> <<>>, val |-> <<"p","o","w","e","r","p","c">>],
       [pre |-> <<"r","i","s","c","v">>, suf |-> <<>>, val |-> <<"r","i","s","c","v">>],
       [pre |-> <<"s","3","9","0">>, suf |-> <<>>, val |-> <<"s","3","9","0">>],
       [pre |-> <<"s","h">>, suf |-> <<>>, val |-> <<"s","h">>],
       [pre |-> <<"x","8","6","_","6","4">>, suf |-> <<>>, val |-> <<"x","8","6","_","6","4">>] >>

\* the architecture component of a triple: what precedes the first "-"
ArchComponent(t) == IF IndexOf(t, "-") = 0 THEN t ELSE SubSeq(t, 1, IndexOf(t, "-") - 1)

TableMatches(t) ==
    {i \in 1..Len(ArchTable) :
        StartsWith(ArchComponent(t), ArchTable[i].pre) /\ EndsWith(ArchComponent(t), ArchTable[i].suf)}

FirstMatch(t) == CHOOSE i \in TableMatches(t) : \A j \in TableMatches(t) : i <= j

\* C7: when the architecture of the target matches an entry of the table,
\* the arch variable written is the value of the first matching entry; the
\* table tests s390 once, so the second s390 test of the code changes nothing.
C7_KernelArchFollowsTable ==
    Written /\ TableMatches(target) # {} => arch = Some(ArchTable[FirstMatch(target)].val)

C7_Witness ==
    /\ Written
    /\ target = T_or1k
    /\ arch = Some(<<"o","p","e","n","r","i","s","c">>)

\* C8: for a target whose architecture matches no entry of the table the run
\* fails before the graph is assembled: nothing is written.
C8_UnmappedArchitectureFails ==
    TableMatches(target) = {} => ~Written /\ builds = {} /\ arch = None

(***************************************************************************)
(* Properties of the composed flag lists.                                  *)
(***************************************************************************)
Composed == pc # "init"

\* the number of flags a user string contributes
RECURSIVE Count(_, _)
Count(s, c) == IF s = <<>> THEN 0 ELSE (IF Head(s) = c THEN 1 ELSE 0) + Count(Tail(s), c)
NUser(u) == IF Truthy(u) THEN Count(Val(u), " ") + 1 ELSE 0

\* the list starts with base and ends with the pieces of the user string
StartsWithBase(flags, base) == StartsWith(flags, base)
EndsWithUser(flags, u) ==
    /\ Len(flags) >= NUser(u)
    /\ Truthy(u) => Join(SubSeq(flags, Len(flags) - NUser(u) + 1, Len(flags)), " ") = Val(u)
\* what lies between the base flags and the user flags
Middle(flags, base, u) == SubSeq(flags, Len(base) + 1, Len(flags) - NUser(u))

HostSlot == { Flag("--host=$host") }
ArchSlots ==
    << { Flag("--enable-fdpic") },
       { Flag("--with-abi=x32") },
       { Flag("--with-abi=elfv2") },
       { Flag("--with-abi=n32"), Flag("--with-abi=64") },
       { Flag("--with-long-double-128") },
       { Flag("--with-float=soft"), Flag("--with-float=hard") } >>

\* the position of the slot a flag belongs to, 0 when it belongs to none
SlotOf(order, f) ==
    IF \E i \in 1..Len(order) : f \in order[i]
    THEN CHOOSE i \in 1..Len(order) : f \in order[i]
    ELSE 0

\* m holds flags of the slots only, in the order of the slots
InSlotOrder(m, order) ==
    /\ \A i \in 1..Len(m) : SlotOf(order, m[i]) > 0
    /\ \A i \in 1..Len(m) : \A j \in (i + 1)..Len(m) : SlotOf(order, m[i]) < SlotOf(order, m[j])

HostFlagPresent(m) == \E i \in 1..Len(m) : m[i] \in HostSlot

\* C9 as claimed: the compiler flags are the base flags, the architecture
\* flags in the order fdpic, x32, ppc64, mips, s390x, float-abi, then the
\* host flag if a host is configured, then the user flags.
C9_ArchThenHost ==
    Composed =>
        /\ StartsWithBase(gcc_flags, GccBaseFlags)
        /\ EndsWithUser(gcc_flags, args_gcc_flags)
        /\ InSlotOrder(Middle(gcc_flags, GccBaseFlags, args_gcc_flags), ArchSlots \o <<HostSlot>>)
        /\ HostFlagPresent(Middle(gcc_flags, GccBaseFlags, args_gcc_flags)) <=> Truthy(host)

\* C9 as amended: the compiler flags are the base flags, the host flag if a
\* non-empty host is configured, then the architecture flags in the order
\* fdpic, x32, ppc64, mips, s390x, float-abi, then the user flags.
C9_HostThenArch ==
    Composed =>
        /\ StartsWithBase(gcc_flags, GccBaseFlags)
        /\ EndsWithUser(gcc_flags, args_gcc_flags)
        /\ InSlotOrder(Middle(gcc_flags, GccBaseFlags, args_gcc_flags), <<HostSlot>> \o ArchSlots)
        /\ HostFlagPresent(Middle(gcc_flags, GccBaseFlags, args_gcc_flags)) <=> Truthy(host)

C9_Witness ==
    /\ Composed
    /\ Truthy(host)
    /\ target = T_many_hf
    /\ Len(Middle(gcc_flags, GccBaseFlags, args_gcc_flags)) = 6
    /\ Truthy(args_gcc_flags)

\* the base flags and the user flags do not overlap, and every flag between
\* them is one of allowed
OnlyBetween(flags, base, u, allowed) ==
    /\ Len(flags) >= Len(base) + NUser(u)
    /\ \A i \in (Len(base) + 1)..(Len(flags) - NUser(u)) : flags[i] \in allowed

\* C10: both flag lists start with the base flags of their component in the
\* declared order and end with the user flags in the order given; the flags
\* the program adds for the host and the architecture lie between the two.
C10_BaseFirstUserLast ==
    Composed =>
        /\ StartsWithBase(binutils_flags, BinutilsBaseFlags)
        /\ EndsWithUser(binutils_flags, args_binutils_flags)
        /\ OnlyBetween(binutils_flags, BinutilsBaseFlags, args_binutils_flags, HostSlot)
        /\ StartsWithBase(gcc_flags, GccBaseFlags)
        /\ EndsWithUser(gcc_flags, args_gcc_flags)
        /\ OnlyBetween(gcc_flags, GccBaseFlags, args_gcc_flags,
                       HostSlot \cup UNION Range(ArchSlots))

C10_Witness ==
    /\ Composed
    /\ Truthy(host)
    /\ target = T_armv7_sf
    /\ args_binutils_flags = Some(<<"--with-float=soft", " ">>)
    /\ args_gcc_flags = Some(<<" ", "--with-float=soft">>)
    /\ Len(gcc_flags) = Len(GccBaseFlags) + 4

\* the state the executor starts in is one main() ends in
ExecStartsFromWritten ==
    Written /\ target = T_arm_hf /\ host = None /\ ~gcc_with_isl /\ no_patches
        /\ path = AllTools /\ cc = DefaultCcBuild /\ ~enable_cache /\ ~windows
        /\ args_binutils_flags = None /\ args_gcc_flags = None =>
            /\ builds = NinjaBuilds(FALSE, TRUE, NoTree, DefaultVersions)
            /\ ninja_vars = NinjaVariables(DefaultCcBuild, DefaultCxxBuild,
                                          DefaultCcBuild, DefaultCxxBuild, None)
            /\ rules = NinjaRules(ComposeBinutilsFlags(None, None),
                                  ComposeGccFlags(T_arm_hf, None, None), None, FALSE)
            /\ checked = ToolChecks(AllTools, None, DefaultCc, DefaultCxx,
                                    DefaultCcBuild, DefaultCxxBuild, FALSE)
            /\ failed = Some(FALSE)
            /\ make = <<"make">>
            /\ cxx = DefaultCxxBuild
            /\ arch = Some(KernelArch(T_arm_hf))
            /\ binutils_flags = ComposeBinutilsFlags(None, None)
            /\ gcc_flags = ComposeGccFlags(T_arm_hf, None, None)
            /\ defaults = DefaultTargets

\* the flags Args.__init__ added for the architecture: what lies between the
\* base flags and the user flags, the host flag apart
ArchFlagSet == Range(Middle(gcc_flags, GccBaseFlags, args_gcc_flags)) \ HostSlot

\* C11: the architecture flags of the compiler are exactly those the rules
\* on the triple give: fdpic iff the triple contains "fdpic"; ABI x32 iff it
\* starts with "x86_64" and ends with "x32"; ABI elfv2 iff it contains
\* "powerpc64"; for a triple containing "mips64" or "mipsisa64" exactly one
\* of ABI n32 (iff it contains "n32") and ABI 64, and neither for any other
\* triple; long-double-128 iff it contains "s390x"; float soft iff it ends
\* with "sf", float hard iff it ends with "hf", never both.
C11_ArchFlagsFollowTriple ==
    Composed =>
        LET t == target
            F == ArchFlagSet
            mips == Contains(t, <<"m","i","p","s","6","4">>)
                        \/ Contains(t, <<"m","i","p","s","i","s","a","6","4">>)
            n32 == Contains(t, <<"n","3","2">>)
        IN  /\ F \subseteq UNION Range(ArchSlots)
            /\ Flag("--enable-fdpic") \in F <=> Contains(t, <<"f","d","p","i","c">>)
            /\ Flag("--with-abi=x32") \in F <=>
                  StartsWith(t, <<"x","8","6","_","6","4">>) /\ EndsWith(t, <<"x","3","2">>)
            /\ Flag("--with-abi=elfv2") \in F <=> Contains(t, <<"p","o","w","e","r","p","c","6","4">>)
            /\ Flag("--with-abi=n32") \in F <=> mips /\ n32
            /\ Flag("--with-abi=64") \in F <=> mips /\ ~n32
            /\ Flag("--with-long-double-128") \in F <=> Contains(t, <<"s","3","9","0","x">>)
            /\ Flag("--with-float=soft") \in F <=> EndsWith(t, <<"s","f">>)
            /\ Flag("--with-float=hard") \in F <=> EndsWith(t, <<"h","f">>)
            /\ ~(Flag("--with-float=soft") \in F /\ Flag("--with-float=hard") \in F)

C11_Witness ==
    /\ Composed
    /\ target = T_mips64_n32sf
    /\ ArchFlagSet = { Flag("--with-abi=n32"), Flag("--with-float=soft") }
    /\ Truthy(host)

(***************************************************************************)
(* Properties of the written rules.                                        *)
(***************************************************************************)
\* the words of a command
Words(cmd) == Range(cmd)

ForTargetPins ==
    { "AR_FOR_TARGET=\"$root_dir/$binutils_dir/binutils/ar\"",
      "AS_FOR_TARGET=\"$root_dir/$binutils_dir/gas/as-new\"",
      "LD_FOR_TARGET=\"$root_dir/$binutils_dir/ld/ld-new\"",
      "NM_FOR_TARGET=\"$root_dir/$binutils_dir/binutils/nm-new\"",
      "OBJCOPY_FOR_TARGET=\"$root_dir/$binutils_dir/binutils/objcopy\"",
      "OBJDUMP_FOR_TARGET=\"$root_dir/$binutils_dir/binutils/objdump\"",
      "RANLIB_FOR_TARGET=\"$root_dir/$binutils_dir/binutils/ranlib\"",
      "READELF_FOR_TARGET=\"$root_dir/$binutils_dir/binutils/readelf\"",
      "STRIP_FOR_TARGET=\"$root_dir/$binutils_dir/binutils/strip-new\"" }
Stage1Compiler == { "CC=\"$root_dir/$gcc_dir/gcc/xgcc" }
FreshArRanlib ==
    { "AR=\"$root_dir/$binutils_dir/binutils/ar\"",
      "RANLIB=\"$root_dir/$binutils_dir/binutils/ranlib\"" }
PrefixedCompiler == { "CC=${target}-gcc" }
PrefixedArRanlib == { "AR=${target}-ar", "RANLIB=${target}-ranlib" }

\* C12: the cross case is the one without a host triple.  With no host
\* triple, configure-gcc names the nine freshly built binutils programs as
\* the *_FOR_TARGET tools, configure-musl uses xgcc of the compiler build
\* directory and build-musl the freshly built ar and ranlib.  With a host
\* triple, configure-gcc has no *_FOR_TARGET pin, and configure-musl and
\* build-musl use the target-prefixed gcc, ar and ranlib.
C12_CrossPinsFreshTools ==
    Written =>
        LET gc == Words(rules["configure-gcc"])
            mc == Words(rules["configure-musl"])
            mb == Words(rules["build-musl"])
        IN  /\ IsCross(host) <=> host = None
            /\ host = None =>
                  /\ ForTargetPins \subseteq gc
                  /\ Stage1Compiler \subseteq mc
                  /\ mc \cap PrefixedCompiler = {}
                  /\ FreshArRanlib \subseteq mb
                  /\ mb \cap PrefixedArRanlib = {}
            /\ host # None =>
                  /\ gc \cap ForTargetPins = {}
                  /\ PrefixedCompiler \subseteq mc
                  /\ mc \cap Stage1Compiler = {}
                  /\ PrefixedArRanlib \subseteq mb
                  /\ mb \cap FreshArRanlib = {}

C12_Witness ==
    /\ Written
    /\ host = None
    /\ windows
    /\ ForTargetPins \subseteq Words(rules["configure-gcc"])
    /\ ".exe" \in Words(rules["configure-musl"])

(***************************************************************************)
(* Properties of the tool discovery.                                       *)
(***************************************************************************)
\* the host compiler a compiler argument names
HostTool(c) ==
    IF c = DefaultCc THEN Val(host) \o <<"-", "gcc">>
    ELSE IF c = DefaultCxx THEN Val(host) \o <<"-", "g++">>
    ELSE c

\* the tools a run needs, before try_get_tools changes the compiler names
RequiredTools ==
    {cc_build, cxx_build}
    \cup (IF Truthy(host) THEN {HostTool(cc), HostTool(cxx)} ELSE {})
    \cup { <<"curl">>, <<"patch">>, <<"tar">> }
MakeFamily == { <<"make">>, <<"gmake">>, <<"mingw32-make">> }
SomeToolMissing ==
    \/ \E r \in RequiredTools : r \notin path
    \/ MakeFamily \cap path = {}

\* C13: try_get_tools asks for every required tool, also after one was found
\* missing, and asks for the make programs until one is found; it reports
\* failure exactly when a required tool or every make program is missing;
\* after a failure the run exits with status 1 and writes no rule and no
\* build statement.
C13_MissingToolAborts ==
    [][ /\ pc = "tools" =>
            /\ RequiredTools \subseteq Range(checked')
            /\ <<"make">> \in Range(checked')
            /\ <<"make">> \notin path => <<"gmake">> \in Range(checked')
            /\ {<<"make">>, <<"gmake">>} \cap path = {} => <<"mingw32-make">> \in Range(checked')
            /\ failed' = Some(SomeToolMissing)
        /\ pc = "checked" /\ Val(failed) =>
            /\ pc' = "exit1"
            /\ builds' = {} /\ rules' = <<>> /\ defaults' = <<>>
        /\ pc = "exit1" => pc' = "exit1" ]_vars

C13_Witness ==
    /\ pc = "exit1"
    /\ Truthy(host)
    /\ {<<"gcc">>, <<"tar">>, H_mingw \o <<"-", "g++">>} \cap path = {}
    /\ {<<"gcc">>, <<"tar">>, H_mingw \o <<"-", "g++">>} \subseteq Range(checked)
    /\ builds = {}

\* every name a build statement mentions: its output, its dependencies and
\* the symbols of its variables
Mentions(b) ==
    {b.out} \cup Deps(b) \cup UNION { Range(v[2]) : v \in b.variables }

IslIdentifiers ==
    { "$isl_tarball", "$build_targets_dir/extract-isl", "$build_targets_dir/move-isl",
      "$isl_dir", "$gcc_dir/isl", "$isl_site/isl-$isl_version.tar.xz" }

\* C14: the download, extract and move statements of ISL are written exactly
\* when ISL is enabled; when enabled, configure-gcc depends on move-isl; when
\* disabled, no statement mentions an ISL name.
C14_IslNodesIffEnabled ==
    Written =>
        /\ "$isl_tarball" \in Outputs(builds) <=> gcc_with_isl
        /\ "$build_targets_dir/extract-isl" \in Outputs(builds) <=> gcc_with_isl
        /\ "$build_targets_dir/move-isl" \in Outputs(builds) <=> gcc_with_isl
        /\ gcc_with_isl =>
              /\ Producer(builds, "$isl_tarball").rule = "download-tarball"
              /\ Producer(builds, "$build_targets_dir/extract-isl").rule = "extract-tar"
              /\ Producer(builds, "$build_targets_dir/move-isl").rule = "move-directory"
              /\ "$build_targets_dir/move-isl"
                    \in Deps(Producer(builds, "$build_targets_dir/configure-gcc"))
        /\ ~gcc_with_isl => \A b \in builds : Mentions(b) \cap IslIdentifiers = {}

C14_Witness ==
    /\ Written
    /\ gcc_with_isl
    /\ target = T_x86_64
    /\ \E b \in builds : b.rule = "move-directory" /\ "$gcc_dir/isl" \in Mentions(b)

\* the statements of the fourteen stages
Stages ==
    << { "$binutils_tarball", "$gcc_tarball", "$gmp_tarball", "$isl_tarball",
         "$linux_tarball", "$mpc_tarball", "$mpfr_tarball", "$musl_tarball" },
       { B("extract-" \o n) : n \in Components },
       { B("configure-binutils"), B("build-binutils"), B("install-binutils") },
       { B("move-gmp"), B("move-isl"), B("move-mpc"), B("move-mpfr") },
       { B("configure-gcc") },
       { B("build-gcc-all-gcc") },
       { B("configure-musl") },
       { B("install-musl-headers-dep") },
       { B("build-gcc-libgcc-static") },
       { B("build-musl"), B("install-musl-dep"), B("install-musl") },
       { B("clean-gcc-libgcc-static") },
       { B("build-gcc-libgcc-shared") },
       { B("build-gcc"), B("install-gcc") },
       { B("build-linux"), B("install-linux") } >>

\* C15: for arm-linux-musleabihf without a host triple the cross case
\* holds, the compiler flags hold --with-float=hard and not
\* --with-float=soft, the kernel architecture is arm, and in the graph as
\* main leaves it every one of the fourteen stages has a statement that is a
\* default target or one a default target depends on; in every state of the
\* executor on that graph, once the default targets are complete a statement
\* of every stage is complete.
C15_ArmHardFloatScenario ==
    Written /\ target = T_arm_hf /\ host = None =>
        /\ goal = None =>
              /\ IsCross(host)
              /\ ForTargetPins \subseteq Words(rules["configure-gcc"])
              /\ Flag("--with-float=hard") \in ArchFlagSet
              /\ Flag("--with-float=soft") \notin ArchFlagSet
              /\ arch = Some(<<"a","r","m">>)
              /\ Len(Stages) = 14
              /\ LET needed == Closure(builds, Range(defaults)) \cap Outputs(builds)
                 IN  \A i \in 1..14 : Stages[i] \cap needed # {}
        /\ Range(defaults) \subseteq done => \A i \in 1..14 : Stages[i] \cap done # {}

C15_Witness ==
    /\ Written /\ target = T_arm_hf /\ host = None
    /\ Range(defaults) \subseteq done
    /\ Range(defaults) # {}
    /\ B("install-gcc") \notin done

(***************************************************************************)
(* Properties of the patch lookup.                                         *)
(***************************************************************************)
\* the value of a variable of a build statement
VarOf(b, name) == (CHOOSE v \in b.variables : v[1] = name)[2]

\* the files a patch command applies, in the order it applies them
AppliedFiles(cmd) == Tail(Split(cmd, " -i ../../"))

PatchDir(name) ==
    <<"patches/musl-cross-make-fe915821b652a7fa37b34a596f47d8e20bc72338/patches/",
      name, "-", version[name]>>

\* C16: with patches switched on, a component whose patch directory does
\* not exist gets the command "true" and the graph is written all the same;
\* a component whose directory exists gets a patch command that applies
\* every file of the directory listing exactly once, in the listing order
\* ("true" when the listing is empty).
C16_PatchesInListingOrder ==
    Written /\ ~no_patches =>
        \A b \in {x \in builds : x.rule = "extract-tar"} :
            \E name \in Components :
                /\ b.out = "$build_targets_dir/extract-" \o name
                /\ LET cmd == VarOf(b, "patch_command")
                       dir == PatchDir(name)
                   IN  IF dir \notin DOMAIN patchfs \/ patchfs[dir] = <<>>
                       THEN cmd = <<"true">>
                       ELSE /\ Head(cmd) = "patch -p 1"
                            /\ Len(AppliedFiles(cmd)) = Len(patchfs[dir])
                            /\ \A i \in 1..Len(patchfs[dir]) :
                                  AppliedFiles(cmd)[i] = dir \o <<"/", patchfs[dir][i]>>

C16_Witness ==
    /\ Written /\ ~no_patches
    /\ PatchDir("gcc") \in DOMAIN patchfs
    /\ patchfs[PatchDir("gcc")] = <<"fix-b.patch", "fix-a.patch">>
    /\ PatchDir("musl") \notin DOMAIN patchfs
    /\ \E b \in builds : b.rule = "extract-tar" /\ Len(VarOf(b, "patch_command")) > 1

(***************************************************************************)
(* Properties of the executor on the written graph.                        *)
(***************************************************************************)
KernelNodes == { B("build-linux"), B("install-linux") }
StageNodes ==
    { B("configure-binutils"), B("build-binutils"), B("install-binutils"),
      B("configure-gcc"), B("build-gcc-all-gcc"), B("build-gcc-libgcc-static"),
      B("build-gcc-libgcc-shared"), B("build-gcc"), B("install-gcc"),
      B("configure-musl"), B("install-musl-headers-dep"), B("build-musl"),
      B("install-musl-dep"), B("install-musl") }

\* a statement the executor has to run, not yet started, whose dependencies
\* are complete
Ready(n) ==
    /\ n \in plan /\ n \notin running \cup done
    /\ \A d \in Deps(Producer(builds, n)) : d \in Outputs(builds) => d \in done

\* C17: the kernel-header statements are not serialized against the
\* compiler and C-library stages: whenever a kernel-header statement is
\* ready and a job is free while a stage statement is executing, the executor
\* can start it, so that both execute at the same time.
C17_KernelBesideStages ==
    \A k \in KernelNodes, s \in StageNodes :
        s \in running /\ Ready(k) /\ Cardinality(running) < MaxJobs
            => ENABLED Start(Producer(builds, k))

\* what the graph gives instead: a kernel-header statement and a stage
\* statement never execute at the same time
KernelNeverBesideStage ==
    \A k \in KernelNodes, s \in StageNodes : ~(k \in running /\ s \in running)

(***************************************************************************)
(* Properties of the rule commands.                                        *)
(***************************************************************************)
\* the rules of the aggregate targets and of the downloads
NoWorkRules == { "download-tarball", "clean-all", "install-all" }

\* the command a build statement runs
CommandOf(b) == rules[b.rule]

\* the command starts by removing a directory
BeginsWithDelete(cmd) == Len(cmd) >= 2 /\ cmd[1] = "rm -rf "

\* the directory removed first is named again later in the command
RecreatesDeleted(cmd) == \E i \in 3..Len(cmd) : cmd[i] = cmd[2]

RebuildingRules ==
    { "extract-tar", "move-directory", "configure-binutils", "configure-gcc",
      "configure-musl", "install-linux" }

MoveNodes == { B("move-gmp"), B("move-isl"), B("move-mpc"), B("move-mpfr") }

\* C20: in every state of the executor, a move statement that has started
\* finds extract-gcc complete, and while extract-gcc executes (deleting and
\* unpacking the compiler source tree) no move statement is executing or
\* complete.
C20_MovesAfterExtractGcc ==
    /\ \A m \in MoveNodes : m \in running \cup done => B("extract-gcc") \in done
    /\ B("extract-gcc") \in running => MoveNodes \cap (running \cup done) = {}

(***************************************************************************)
(* Properties of the C library installs.                                   *)
(***************************************************************************)
\* the statements that name n as a dependency
DirectDependents(bs, n) == { b.out : b \in { x \in bs : n \in Deps(x) } }

\* C21: install-musl-dep and install-musl are two statements with rules of
\* their own, the first installing into the build sysroot and the second
\* into the install directory; each depends on build-musl alone, neither
\* depends on the other, directly or not; only the install aggregate depends
\* on install-musl, and clean-gcc-libgcc-static, the shared libgcc build,
\* build-gcc and install-gcc do not depend on it, directly or not.
C21_TwoMuslInstalls ==
    Written =>
        LET dep == Producer(builds, "$build_targets_dir/install-musl-dep")
            fin == Producer(builds, "$build_targets_dir/install-musl")
        IN  /\ {"$build_targets_dir/install-musl-dep", "$build_targets_dir/install-musl"}
                  \subseteq Outputs(builds)
            /\ dep.rule = "install-musl-dep" /\ fin.rule = "install-musl"
            /\ "$env_vars $make_command install prefix=/usr DESTDIR=$build_sysroot_dir"
                  \in Words(rules[dep.rule])
            /\ "$env_vars $make_command install DESTDIR=$install_dir/$target"
                  \in Words(rules[fin.rule])
            /\ Deps(dep) = {"$build_targets_dir/build-musl"}
            /\ Deps(fin) = {"$build_targets_dir/build-musl"}
            /\ fin.out \notin Closure(builds, {dep.out})
            /\ dep.out \notin Closure(builds, {fin.out})
            /\ DirectDependents(builds, fin.out) = {"install"}
            /\ fin.out \notin Closure(builds, {"$build_targets_dir/install-gcc"})
            /\ "$build_targets_dir/clean-gcc-libgcc-static"
                  \in DirectDependents(builds, dep.out)

C21_Witness ==
    /\ Written
    /\ "$build_targets_dir/install-musl-dep"
          \in Closure(builds, {"$build_targets_dir/build-gcc"})
    /\ "$build_targets_dir/install-musl" \in Closure(builds, {"install"})

Downloads == { b \in builds : b.rule = "download-tarball" }
Extracts == { b \in builds : b.rule = "extract-tar" }

\* the listing the patch step of a component works from: none when patches
\* are switched off or the directory does not exist
PatchSetOf(name) ==
    IF ~no_patches /\ PatchDir(name) \in DOMAIN patchfs
    THEN Some(patchfs[PatchDir(name)])
    ELSE None

\* C22: every download statement has no dependency and exactly one extract
\* statement, that of the same component, takes its archive as only
\* dependency; there is no other extract statement.  The patch step of an
\* extract statement is "true" when the component has no patch set or a
\* patch set without files, and otherwise one patch invocation with one -i
\* argument for every file of the set.
C22_OneExtractPerDownload ==
    Written =>
        /\ \A d \in Downloads :
              /\ Deps(d) = {}
              /\ Cardinality({ x \in Extracts : Deps(x) = {d.out} }) = 1
        /\ Cardinality(Extracts) = Cardinality(Downloads)
        /\ \A x \in Extracts :
              \E name \in Components :
                  /\ x.out = "$build_targets_dir/extract-" \o name
                  /\ Deps(x) = { "$" \o name \o "_tarball" }
                  /\ LET cmd == VarOf(x, "patch_command")
                         set == PatchSetOf(name)
                     IN  IF set = None \/ Val(set) = <<>>
                         THEN cmd = <<"true">>
                         ELSE /\ Head(cmd) = "patch -p 1"
                              /\ Count(cmd, "patch -p 1") = 1
                              /\ Count(cmd, " -i ../../") = Len(Val(set))
                              /\ { f[Len(f)] : f \in Range(AppliedFiles(cmd)) } = Range(Val(set))

C22_Witness ==
    /\ Written /\ ~no_patches /\ gcc_with_isl
    /\ PatchSetOf("gcc") = Some(<<>>)
    /\ PatchSetOf("musl") = Some(<<"fix-a.patch", "fix-b.patch">>)
    /\ PatchSetOf("isl") = None
    /\ Cardinality(Extracts) = 8


(***************************************************************************)
(* Properties of the patch bundle.                                         *)
(***************************************************************************)
\* the step of main that consults the patch catalog (Args.ninja)
CatalogQueried == pc = "checked" /\ pc' = "written"

\* C23: the bundle is downloaded at most once in a run, and only by the first
\* step of main, with patches on and the directory absent; the directory and
\* its contents change only in that download; the catalog is consulted only
\* by the later step that writes the graph, which leaves download count,
\* directory and contents as they are and reads the contents the download
\* left; once the graph is written nothing is downloaded.
C23_FetchOnceBeforeCatalog ==
    [][ /\ fetches' \in {fetches, fetches + 1}
        /\ fetches' <= 1
        /\ fetches' # fetches =>
              pc = "patches" /\ ~no_patches /\ ~extracted /\ fetches = 0
        /\ (patchfs' # patchfs \/ extracted' # extracted) =>
              fetches' = fetches + 1 /\ extracted'
        /\ builds' # builds => CatalogQueried
        /\ CatalogQueried =>
              /\ fetches' = fetches /\ patchfs' = patchfs /\ extracted' = extracted
              /\ ~no_patches => extracted
              /\ builds' = NinjaBuilds(gcc_with_isl, no_patches, patchfs, version)
        /\ builds # {} => fetches' = fetches
      ]_vars

C23_Witness ==
    /\ Written /\ ~no_patches /\ fetches = 1 /\ extracted
    /\ \E x \in Extracts : VarOf(x, "patch_command") # <<"true">>


\* the nodes and edges of a set of statements
Graph(bs) == { <<b.out, b.rule, Deps(b)>> : b \in bs }

\* C24: in a run with patches switched off the bundle is not downloaded and
\* the run does not end in the download; whatever the patch directories
\* hold, the patch step of every extract statement is "true", and nodes and
\* edges are those of a run with patches on, whatever that run finds in the
\* directories.
C24_SkipPatches ==
    no_patches =>
        /\ fetches = 0
        /\ pc # "crashed"
        /\ Written =>
              /\ \A x \in Extracts : VarOf(x, "patch_command") = <<"true">>
              /\ \A tree \in BundleTrees :
                    Graph(builds) =
                        Graph(NinjaBuilds(gcc_with_isl, FALSE, tree, version))

C24_Witness ==
    /\ Written /\ no_patches /\ extracted /\ fetches = 0
    /\ PatchDir("gcc") \in DOMAIN patchfs
    /\ Len(patchfs[PatchDir("gcc")]) = 2
    /\ \A x \in Extracts : VarOf(x, "patch_command") = <<"true">>


(***************************************************************************)
(* Properties of the sentinels.                                            *)
(***************************************************************************)
\* the statements whose output is a sentinel: all but the downloads, the two
\* directory deletions and the aggregates
Sentinelled ==
    { b \in builds : b.rule \notin {"download-tarball", "delete-directory",
                                    "clean-all", "install-all"} }
SentinelTouches == {"touch ../../$out", "touch $out"}
\* connectives of the shell after which the next step runs although the one
\* before it failed
Sequencers == {" ; ", " || ", " | ", " & "}

\* C25: the command of every extract, move, configure, build, install and
\* libgcc clean statement ends in the touch of its output, that touch is
\* joined to the steps before it by &&, no other step touches the output,
\* and no step is followed by a connective that runs the next step after a
\* failure; the touch names the output from the directory the command is in
\* at that point.
C25_SentinelLastAndConditional ==
    Written =>
        /\ \A b \in builds :
              \/ b.rule \in {"download-tarball", "delete-directory"}
              \/ b.out \in {"clean", "install"}
              \/ b \in Sentinelled
        /\ \A b \in Sentinelled :
              LET cmd == rules[b.rule]
                  n == Len(cmd)
              IN  /\ n >= 3
                  /\ cmd[n] \in SentinelTouches
                  /\ cmd[n - 1] = " && "
                  /\ \A i \in 1..(n - 1) :
                        cmd[i] \notin SentinelTouches \cup Sequencers
                  /\ Count(cmd, "cd ") <= 1
                  /\ (cmd[n] = "touch ../../$out") <=> (Count(cmd, "cd ") = 1)

C25_Witness ==
    /\ Written
    /\ \A r \in {"extract-tar", "move-directory", "configure-gcc", "build-musl",
                 "install-musl", "clean-gcc-libgcc-static"} :
          \E b \in Sentinelled : b.rule = r
    /\ rules["move-directory"][Len(rules["move-directory"])] = "touch $out"
    /\ args_gcc_flags # None


(***************************************************************************)
(* Properties of the pools.                                                *)
(***************************************************************************)
ConfigureRules == {"configure-binutils", "configure-gcc", "configure-musl"}
BuildRules ==
    {"build-binutils", "build-gcc-all-gcc", "build-gcc-libgcc-static",
     "build-musl", "build-gcc-libgcc-shared", "build-gcc", "build-linux"}
InstallRules ==
    {"install-binutils", "install-musl-headers-dep", "install-musl-dep",
     "install-musl", "install-gcc", "install-linux"}
CleanupRules == {"clean-gcc-libgcc-static"}
SerializedRules ==
    {"download-tarball"} \cup ConfigureRules \cup BuildRules \cup InstallRules
    \cup CleanupRules
ParallelRules ==
    {"extract-tar", "move-directory", "delete-directory", "clean-all", "install-all"}

\* every statement of a graph is of a known kind and in the console pool
\* exactly when its kind is a serialized one
PoolsClassified(bs) ==
    \A b \in bs :
        /\ b.rule \in SerializedRules \cup ParallelRules
        /\ b.rule \in SerializedRules => b.pool = Console
        /\ b.rule \in ParallelRules => b.pool = None

\* the directory a command works in, by its cd step
WorkDir(rule) ==
    LET cmd == rules[rule]
        i == IndexOf(cmd, "cd ")
    IN  IF i = 0 THEN None ELSE Some(cmd[i + 1])
\* the rules that write the build-time sysroot and the install prefix
SysrootWriters == {"configure-gcc", "install-musl-headers-dep", "install-musl-dep"}
PrefixWriters == {"install-binutils", "install-musl", "install-gcc", "install-linux"}
\* two rules that must not run at once
Conflict(r1, r2) ==
    \/ /\ {r1, r2} \subseteq ConfigureRules \cup BuildRules \cup InstallRules \cup CleanupRules
       /\ WorkDir(r1) # None /\ WorkDir(r1) = WorkDir(r2)
    \/ {r1, r2} \subseteq SysrootWriters
    \/ {r1, r2} \subseteq PrefixWriters

\* C26: the statements of every written graph, with or without ISL, are in
\* the console pool exactly when they are download, configure, build,
\* install or libgcc clean statements; any two statements that work in the
\* same build directory or both write the sysroot or both write the install
\* prefix are in the console pool; and the executor never has two console
\* statements, nor two such conflicting statements, running at once.
C26_SerializedPool ==
    /\ goal = None =>
          /\ PoolsClassified(builds)
          /\ \A isl \in BOOLEAN :
                PoolsClassified(NinjaBuilds(isl, no_patches, patchfs, version))
          /\ \A a, b \in builds :
                a # b /\ Conflict(a.rule, b.rule) =>
                    a.pool = Console /\ b.pool = Console
    /\ \A x, y \in running :
          x # y =>
              LET a == Producer(builds, x)
                  b == Producer(builds, y)
              IN  /\ ~(a.pool = Console /\ b.pool = Console)
                  /\ ~Conflict(a.rule, b.rule)

\* the two installs of the C library are both ready to run, a job is free,
\* and one of them waits for the other
C26_Witness ==
    /\ B("install-musl-dep") \in running
    /\ Ready(B("install-musl"))
    /\ Cardinality(running) < MaxJobs
    /\ Conflict("install-musl-dep", "build-musl")
    /\ Conflict("install-gcc", "install-linux")


(***************************************************************************)
(* Properties of tool discovery.                                           *)
(***************************************************************************)
\* the step of main that runs try_get_tools, and the one that writes the file
ToolsDiscovered == pc = "tools" /\ pc' = "checked"
FileWritten == pc = "checked" /\ pc' = "written"

\* try_get_tools asked for the two host compilers after the build compilers
HostCompilersChecked ==
    /\ Len(checked') >= 4
    /\ checked'[3] = Replace(cc, "$host", Val(host))
    /\ checked'[4] = Replace(cxx, "$host", Val(host))
\* after the build compilers try_get_tools went on to the wrapper or to make
HostCompilersNotChecked ==
    /\ SubSeq(checked', 1, 2) = <<cc_build, cxx_build>>
    /\ checked'[3] \in { <<"ccache">>, <<"make">> }

ForBuildAssignments == { "CC_FOR_BUILD=\"$cc_build\"", "CXX_FOR_BUILD=\"$cxx_build\"" }

\* what try_get_tools and the top of build.ninja do about the host compilers
\* in a run without --host, and in a run with it
HostCompilersFollowHost ==
    /\ ToolsDiscovered /\ host = None =>
          /\ cc' = cc_build' /\ cxx' = cxx_build'
          /\ HostCompilersNotChecked
    /\ ToolsDiscovered /\ host # None =>
          /\ cc' = Wrap(Wrapper(path, enable_cache), Replace(cc, "$host", Val(host)))
          /\ cxx' = Wrap(Wrapper(path, enable_cache), Replace(cxx, "$host", Val(host)))
          /\ HostCompilersChecked
    /\ FileWritten /\ host = None =>
          /\ ForBuildAssignments \cap Range(ninja_vars'["env_vars"]) = {}
          /\ {"cc_build", "cxx_build"} \cap DOMAIN ninja_vars' = {}
          /\ ninja_vars'["cc"] = cc /\ ninja_vars'["cxx"] = cxx
    /\ FileWritten /\ host # None =>
          /\ ForBuildAssignments \subseteq Range(ninja_vars'["env_vars"])
          /\ ninja_vars'["cc_build"] = cc_build /\ ninja_vars'["cxx_build"] = cxx_build
          /\ ninja_vars'["cc"] = cc /\ ninja_vars'["cxx"] = cxx

\* C27: in a run without --host, try_get_tools leaves the host compilers
\* equal to the build compilers, asks for no host compiler, and env_vars has
\* no CC_FOR_BUILD and CXX_FOR_BUILD; in a run with --host, $host in the host
\* compilers is replaced by the host, both host compilers are asked for, and
\* env_vars has CC_FOR_BUILD and CXX_FOR_BUILD.
C27_HostCompilersFollowHost == [][HostCompilersFollowHost]_vars

\* the same for every run but those with an empty --host
HostCompilersFollowNonEmptyHost ==
    [][host # Some(<<>>) => HostCompilersFollowHost]_vars


\* the compilers try_get_tools has before it looks for a wrapper
HostCompilerBases ==
    << IF Truthy(host) THEN HostCompiler(cc, host) ELSE cc_build,
       IF Truthy(host) THEN HostCompiler(cxx, host) ELSE cxx_build,
       cc_build, cxx_build >>
\* the four compilers after try_get_tools are those before the wrapper, each
\* with the prefix in front
AllFourPrefixed(prefix) ==
    <<cc', cxx', cc_build', cxx_build'>> =
        [i \in 1..4 |-> prefix \o HostCompilerBases[i]]

\* C28: with the cache option, try_get_tools puts "ccache " in front of all
\* four compilers when ccache is found, "sccache " in front of all four when
\* ccache is not found and sccache is, and leaves all four without a prefix
\* when neither is found, which by itself does not make the run fail: the
\* run fails exactly when a required tool is missing.  Without the cache
\* option the four compilers get no prefix and neither wrapper is asked for.
C28_WrapperChoice ==
    [][ ToolsDiscovered =>
          /\ enable_cache /\ <<"ccache">> \in path =>
                AllFourPrefixed(<<"ccache", " ">>)
          /\ enable_cache /\ <<"ccache">> \notin path /\ <<"sccache">> \in path =>
                AllFourPrefixed(<<"sccache", " ">>)
          /\ enable_cache /\ <<"ccache">> \notin path /\ <<"sccache">> \notin path =>
                AllFourPrefixed(<<>>)
          /\ ~enable_cache =>
                /\ AllFourPrefixed(<<>>)
                /\ {<<"ccache">>, <<"sccache">>} \cap Range(checked') = {}
          /\ Val(failed') <=> SomeToolMissing
      ]_vars

\* a written file of a run that fell back to sccache
C28_Witness ==
    /\ Written /\ enable_cache
    /\ <<"ccache">> \notin path /\ <<"sccache">> \in path
    /\ \A c \in {cc, cxx, cc_build, cxx_build} : SubSeq(c, 1, 2) = <<"sccache", " ">>
    /\ ninja_vars["cc"] = cc

====
